---- MODULE Spec2Model ----
(***************************************************************************)
(* Model of the word-note reconciliation of the Practice Foreign Language  *)
(* plugin (src/src/wordNote.ts) and of the callers that write the notes    *)
(* (src/unnamed/part_000, the plugin class; src/unnamed/part_002, utils).  *)
(* The table command is modelled from the plugin class that calls          *)
(* processWordFromTable (src/unnamed/part_000); src/main.ts holds an older *)
(* copy of the class that does not use wordNote.ts.                        *)
(*                                                                         *)
(* Text.  A JavaScript string is modelled as a sequence of tokens.  A token*)
(* is a TLA+ string that stands for a fixed, non-empty run of characters:  *)
(*   - the characters the program's patterns inspect are tokens of their   *)
(*     own: the line feed NL, the space SP, "#", "-", ":", the double      *)
(*     quote QUOTE, the backslash BSL and the table bar PIPE;              *)
(*   - a word token ("slovo", "go", "1") is a run of [A-Za-z0-9_];         *)
(*   - a single letter outside ASCII is a token of its own, named by its   *)
(*     code point ("U00ED" is i-acute);                                    *)
(*   - a chunk token is a literal piece of one of the program's templates  *)
(*     ("Theme note: [[") that starts and ends with a character that is not*)
(*     white space, holds no line feed, and is never matched by a pattern. *)
(* Two texts are equal strings iff they are equal token sequences, because *)
(* every text of the model is tokenised in this one way.                   *)
(***************************************************************************)
EXTENDS Integers, Sequences, FiniteSets, TLC

NL == "\n"
SP == " "
HASH == "#"
DASH == "-"
COLON == ":"
QUOTE == "\""
BSL == "\\"
PIPE == "|"

\* The tokens that stand for runs of [A-Za-z0-9_] (JavaScript's \w).
WordToks ==
    {"slovo", "translation", "theme", "phrase", "phrase_translation",
     "partOfSpeech", "partOfSpeechVerbose", "verbConjugationGroup", "vzor",
     "isIrregularVerb", "nounRod", "nounRodFull", "tags", "aliases",
     "go", "to", "make", "house", "a", "b", "x", "y", "1", "2", "true", "false", "null",
     "Basic", "Verbs", "basic", "verbs", "Dum", "dum", "Notes", "Grammar",
     "Flashcards", "Cards", "Title", "Slovo", "note", "my", "Vzor", "Rule", "end", "_",
     "A", "B", "C", "D", "E", "F", "G", "H", "I", "J", "K", "L", "M", "N", "O", "P",
     "Q", "R", "S", "T", "U", "V", "W", "X", "Y", "Z",
     "c", "d", "e", "f", "g", "h", "i", "j", "k", "l", "m", "n", "o", "p",
     "q", "r", "s", "t", "u", "v", "w", "z"}

\* The tokens that stand for one letter outside ASCII, named by code point:
\* letters (\p{L}) that are not \w.  Czech: U00E1 a-acute, U010D c-caron,
\* U00E9 e-acute, U011B e-caron, U00ED i-acute, U0159 r-caron, U016F u-ring,
\* U017E z-caron, U010C C-caron, U017D Z-caron, U00FD y-acute.  Cyrillic: U0430 a, U0433 g,
\* U0434 d, U0435 e, U0436 zh, U0437 z, U0438 i, U043B l, U043C m, U043D n,
\* U043E o, U043F p, U0440 r, U0441 s, U0442 t, U0443 u, U0447 ch, U0449 shch,
\* U044E yu, U0427 Ch.
LetterToks ==
    {"U00E1", "U010D", "U00E9", "U011B", "U00ED", "U0159", "U016F", "U017E",
     "U010C", "U017D", "U00FD",
     "U0430", "U0433", "U0434", "U0435", "U0436", "U0437", "U0438", "U043B",
     "U043C", "U043D", "U043E", "U043F", "U0440", "U0441", "U0442", "U0443",
     "U0447", "U0449", "U044E", "U0427"}

\* [a-zA-Z0-9]: a slug pattern that knows the letters of ASCII only.
IsAsciiLetterOrDigit(t) == t \in WordToks \ {"_", "phrase_translation"}

\* [\p{L}\p{N}]: a letter or a digit, which "_" is not.
IsLetterOrDigit(t) ==
    \/ t \in LetterToks
    \/ t \in WordToks \ {"_", "phrase_translation"}

\* JavaScript's \s and String.prototype.trim: white space, the line feed included.
IsSpace(t) == t \in {SP, NL}

IsWordTok(t) == t \in WordToks

(***************************************************************************)
(* String primitives of JavaScript, on token sequences.                    *)
(***************************************************************************)

\* pat occurs in s at position i.
MatchAt(s, pat, i) ==
    /\ i >= 1
    /\ i + Len(pat) - 1 <= Len(s)
    /\ \A j \in 1..Len(pat) : s[i + j - 1] = pat[j]

\* The least element of the set of positions from..to that satisfy P, or
\* none when no position does.
First(from, to, P(_), none) ==
    IF \E k \in from..to : P(k)
    THEN CHOOSE k \in from..to : P(k) /\ \A j \in from..(k - 1) : ~P(j)
    ELSE none

\* The least position >= i where pat occurs in s, or 0 (String.prototype.indexOf).
FindFrom(s, pat, i) ==
    LET Hit(k) == MatchAt(s, pat, k)
    IN  First(i, Len(s) - Len(pat) + 1, Hit, 0)

Includes(s, pat) == FindFrom(s, pat, 1) # 0

\* The first position >= i of s that holds no white space, or Len(s) + 1.
SkipSpace(s, i) ==
    LET NoSpace(k) == ~IsSpace(s[k])
    IN  First(i, Len(s), NoSpace, Len(s) + 1)

\* The last position <= i of s that holds no white space, or 0.
SkipSpaceBack(s, i) ==
    IF \E k \in 1..i : ~IsSpace(s[k])
    THEN CHOOSE k \in 1..i : ~IsSpace(s[k]) /\ \A j \in (k + 1)..i : IsSpace(s[j])
    ELSE 0

\* String.prototype.trim: white space removed at both ends.
Trim(s) == SubSeq(s, SkipSpace(s, 1), SkipSpaceBack(s, Len(s)))

\* String.prototype.split('\n').
RECURSIVE SplitLines(_)
SplitLines(s) ==
    LET i == FindFrom(s, <<NL>>, 1)
    IN  IF i = 0 THEN <<s>>
        ELSE <<SubSeq(s, 1, i - 1)>> \o SplitLines(SubSeq(s, i + 1, Len(s)))

\* Array.prototype.join('\n').
RECURSIVE JoinLines(_)
JoinLines(ls) ==
    IF Len(ls) = 0 THEN <<>>
    ELSE IF Len(ls) = 1 THEN ls[1]
    ELSE ls[1] \o <<NL>> \o JoinLines(Tail(ls))

\* s.replace(/^#+\s*/, ''): the leading run of # and the white space after it.
SkipHashes(s, i) ==
    LET NoHash(k) == s[k] # HASH
    IN  First(i, Len(s), NoHash, Len(s) + 1)

StripHeadingMarks(s) ==
    IF Len(s) >= 1 /\ s[1] = HASH
    THEN SubSeq(s, SkipSpace(s, SkipHashes(s, 1)), Len(s))
    ELSE s

(***************************************************************************)
(* Values of a frontmatter mapping: a JavaScript value is a record with its*)
(* type t and, for a string, number or boolean, its text v.                *)
(***************************************************************************)
Str(s) == [t |-> "str", v |-> s]
Num(s) == [t |-> "num", v |-> s]
Bool(s) == [t |-> "bool", v |-> s]
Undefined == [t |-> "undef", v |-> <<>>]
Null == [t |-> "null", v |-> <<>>]

NOT_DEFINED == <<"N", "O", "T", "_", "D", "E", "F", "I", "N", "E", "D">>

\* A mapping is the sequence of its entries [k, val] in insertion order, the
\* keys distinct; a key is a text.
HasKey(m, k) == \E i \in 1..Len(m) : m[i].k = k

\* m[k] of JavaScript: undefined for a key the object does not have.
Get(m, k) ==
    IF HasKey(m, k) THEN m[CHOOSE i \in 1..Len(m) : m[i].k = k].val ELSE Undefined

\* m[k] = val: an own key keeps its place, a new key goes last.
Put(m, k, val) ==
    IF HasKey(m, k)
    THEN [i \in 1..Len(m) |-> IF m[i].k = k THEN [k |-> k, val |-> val] ELSE m[i]]
    ELSE Append(m, [k |-> k, val |-> val])

Keys(m) == {m[i].k : i \in 1..Len(m)}

(***************************************************************************)
(* Frontmatter codec and merger.                                           *)
(***************************************************************************)

\* The number of tokens of the leading run of \w of a line.
WordRun(line, i) ==
    LET NoWord(k) == ~IsWordTok(line[k])
    IN  First(i, Len(line), NoWord, Len(line) + 1) - 1

\* value.replace(/^"(.*)"$/, '$1'): one pair of enclosing double quotes dropped;
\* escapes inside are left as they are.
StripQuotes(v) ==
    IF Len(v) >= 2 /\ v[1] = QUOTE /\ v[Len(v)] = QUOTE
    THEN SubSeq(v, 2, Len(v) - 1)
    ELSE v

\* The loop of parseExistingFrontmatter over lines[i..]: a line that matches
\* /^(\w+):\s*(.*)$/ sets result[key], any other line is skipped.
RECURSIVE ParseLines(_, _, _)
ParseLines(lines, i, result) ==
    IF i > Len(lines) THEN result
    ELSE LET line == lines[i]
             n == WordRun(line, 1)
         IN  IF n >= 1 /\ n < Len(line) /\ line[n + 1] = COLON
             THEN ParseLines(lines, i + 1,
                    Put(result, SubSeq(line, 1, n),
                        Str(StripQuotes(SubSeq(line, SkipSpace(line, n + 2), Len(line))))))
             ELSE ParseLines(lines, i + 1, result)

parseExistingFrontmatter(frontmatterContent) ==
    ParseLines(SplitLines(frontmatterContent), 1, <<>>)

\* The sentinel test of mergeFrontmatter on existingFrontmatter[key].
\* A merge that overwrites: every existing value counts as unset.
IsFillableAlways(existingValue) == TRUE

IsFillable(existingValue) ==
    \/ existingValue = Null
    \/ existingValue = Str(<<>>)
    \/ existingValue = Str(NOT_DEFINED)
    \/ existingValue = Undefined

\* The loop of mergeFrontmatter over the keys newFrontmatter[i..].
RECURSIVE MergeFrom(_, _, _, _)
MergeFrom(existingFrontmatter, newFrontmatter, i, updatedFrontmatter) ==
    IF i > Len(newFrontmatter) THEN updatedFrontmatter
    ELSE LET key == newFrontmatter[i].k
             val == newFrontmatter[i].val
         IN  IF val # Undefined /\ val # Null /\ IsFillable(Get(existingFrontmatter, key))
             THEN MergeFrom(existingFrontmatter, newFrontmatter, i + 1,
                            Put(updatedFrontmatter, key, val))
             ELSE MergeFrom(existingFrontmatter, newFrontmatter, i + 1, updatedFrontmatter)

mergeFrontmatter(existingFrontmatter, newFrontmatter) ==
    MergeFrom(existingFrontmatter, newFrontmatter, 1, existingFrontmatter)

\* js-yaml's double-quoted style: " and \ are escaped, printable text is kept.
RECURSIVE EscapeString(_)
EscapeString(s) ==
    IF Len(s) = 0 THEN <<>>
    ELSE (IF s[1] = QUOTE THEN <<BSL, QUOTE>>
          ELSE IF s[1] = BSL THEN <<BSL, BSL>>
          ELSE <<s[1]>>) \o EscapeString(Tail(s))

\* One scalar as yaml.dump writes it with forceQuotes and quotingType '"': a
\* string in double quotes, a number, a boolean and null plain.
DumpScalar(val) ==
    IF val.t = "str" THEN <<QUOTE>> \o EscapeString(val.v) \o <<QUOTE>>
    ELSE IF val.t = "null" THEN <<"null">>
    ELSE val.v

\* yaml.dump of a flat mapping: one "key: value" line per entry in insertion
\* order, each ended by a line feed; a pair whose value is undefined is left out.
RECURSIVE DumpFrom(_, _)
DumpFrom(m, i) ==
    IF i > Len(m) THEN <<>>
    ELSE (IF m[i].val = Undefined THEN <<>>
          ELSE m[i].k \o <<COLON, SP>> \o DumpScalar(m[i].val) \o <<NL>>)
         \o DumpFrom(m, i + 1)

YamlDump(m) ==
    IF \A i \in 1..Len(m) : m[i].val = Undefined THEN <<"{}", NL>> ELSE DumpFrom(m, 1)

FrontmatterOpen == <<DASH, DASH, DASH, NL>>
FrontmatterClose == <<NL, DASH, DASH, DASH>>

\* frontmatterRegex /^---\n([\s\S]*?)\n---/: the position of the closing "\n---"
\* of a block that opens the text, or 0 when the text has no such block.
FrontmatterEnd(content) ==
    IF MatchAt(content, FrontmatterOpen, 1)
    THEN FindFrom(content, FrontmatterClose, Len(FrontmatterOpen) + 1)
    ELSE 0

updateFrontmatterContent(existingContent, newFrontmatter) ==
    LET e == FrontmatterEnd(existingContent)
        updatedFrontmatter ==
            IF e # 0
            THEN mergeFrontmatter(
                   parseExistingFrontmatter(
                     SubSeq(existingContent, Len(FrontmatterOpen) + 1, e - 1)),
                   newFrontmatter)
            ELSE newFrontmatter
        contentAfterFrontmatter ==
            IF e # 0
            THEN Trim(SubSeq(existingContent, e + Len(FrontmatterClose), Len(existingContent)))
            ELSE Trim(existingContent)
    IN  <<DASH, DASH, DASH, NL>> \o Trim(YamlDump(updatedFrontmatter))
          \o <<NL, DASH, DASH, DASH, NL, NL>> \o contentAfterFrontmatter

(***************************************************************************)
(* Section splicer.                                                        *)
(***************************************************************************)

\* The end of the lazy [\s\S]*?(?=\n##|$) that starts at position j: the first
\* position k >= j followed by "\n##", or the end of the text.
SectionEnd(content, j) ==
    LET k == FindFrom(content, <<NL, HASH, HASH>>, j)
    IN  IF k = 0 THEN Len(content) + 1 ELSE k

\* sectionName is a text; the heading the pattern looks for is "## name\n",
\* anywhere in the text (the pattern has no ^).
SectionHeading(sectionName) == <<HASH, HASH, SP>> \o sectionName \o <<NL>>

addOrUpdateSection(content, sectionName, newSectionContent) ==
    LET i == FindFrom(content, SectionHeading(sectionName), 1)
        sectionContent == <<HASH, HASH, SP>> \o sectionName \o <<NL>> \o newSectionContent
    IN  IF i # 0
        THEN SubSeq(content, 1, i - 1) \o sectionContent
               \o SubSeq(content, SectionEnd(content, i + Len(SectionHeading(sectionName))),
                         Len(content))
        ELSE content \o <<NL, NL>> \o sectionContent

(***************************************************************************)
(* Tables of the word-record normalizer.                                   *)
(***************************************************************************)

\* The category names getPartOfSpeech returns, letter by letter.
Sloveso == <<"S", "l", "o", "v", "e", "s", "o">>
PodstatneJmeno == <<"P", "o", "d", "s", "t", "a", "t", "n", "U00E9", SP, "j", "m", "U00E9", "n", "o">>
PridavneJmeno == <<"P", "U0159", "U00ED", "d", "a", "v", "n", "U00E9", SP, "j", "m", "U00E9", "n", "o">>
Prislovce == <<"P", "U0159", "U00ED", "s", "l", "o", "v", "c", "e">>
Cislovka == <<"U010C", "U00ED", "s", "l", "o", "v", "k", "a">>
Predlozka == <<"P", "U0159", "e", "d", "l", "o", "U017E", "k", "a">>
Zajmeno == <<"Z", "U00E1", "j", "m", "e", "n", "o">>
Spojka == <<"S", "p", "o", "j", "k", "a">>
Castice == <<"U010C", "U00E1", "s", "t", "i", "c", "e">>
Citoslovce == <<"C", "i", "t", "o", "s", "l", "o", "v", "c", "e">>
ChasticeMixed == <<"U0427", "U0430", "U0441", "U0442", "i", "c", "e">>

\* partOfSpeechMap, in the order Object.entries walks it.
partOfSpeechMap ==
    <<[key |-> <<"s", "l", "o", "v">>, value |-> Sloveso],
      [key |-> <<"p", "o", "d">>, value |-> PodstatneJmeno],
      [key |-> <<"p", "U0159", "U00ED", "d">>, value |-> PridavneJmeno],
      [key |-> <<"p", "U0159", "U00ED", "s", "l">>, value |-> Prislovce],
      [key |-> <<"U010D", "U00ED", "s">>, value |-> Cislovka],
      [key |-> <<"p", "U0159", "e", "d", "l">>, value |-> Predlozka],
      [key |-> <<"z", "U00E1", "j">>, value |-> Zajmeno],
      [key |-> <<"s", "p", "o", "j">>, value |-> Spojka],
      [key |-> <<"U010D", "U00E1", "s", "t">>, value |-> Castice],
      [key |-> <<"c", "i", "t", "o", "s">>, value |-> Citoslovce]>>

additionalChecks ==
    <<[key |-> <<"v", "e", "r", "b">>, value |-> Sloveso],
      [key |-> <<"U0433", "U043B", "U0430", "U0433">>, value |-> Sloveso],
      [key |-> <<"n", "o", "u", "n">>, value |-> PodstatneJmeno],
      [key |-> <<"U0441", "U0443", "U0449">>, value |-> PodstatneJmeno],
      [key |-> <<"U043F", "U043E", "U0434", "U0441", "U0442">>, value |-> PodstatneJmeno],
      [key |-> <<"a", "d", "j">>, value |-> PridavneJmeno],
      [key |-> <<"U043F", "U0440", "U0438", "U043B">>, value |-> PridavneJmeno],
      [key |-> <<"a", "d", "v">>, value |-> Prislovce],
      [key |-> <<"U043D", "U0430", "U0440">>, value |-> Prislovce],
      [key |-> <<"n", "u", "m">>, value |-> Cislovka],
      [key |-> <<"U0447", "U0438", "U0441", "U043B">>, value |-> Cislovka],
      [key |-> <<"p", "r", "e", "p">>, value |-> Predlozka],
      [key |-> <<"U043F", "U0440", "U0435", "U0434">>, value |-> Predlozka],
      [key |-> <<"p", "r", "o", "n">>, value |-> Zajmeno],
      [key |-> <<"U043C", "U0435", "U0441", "U0442">>, value |-> Zajmeno],
      [key |-> <<"c", "o", "n", "j">>, value |-> Spojka],
      [key |-> <<"U0441", "U043E", "U044E", "U0437">>, value |-> Spojka],
      [key |-> <<"p", "a", "r", "t">>, value |-> Castice],
      [key |-> <<"U0447", "U0430", "U0441", "U0442">>, value |-> ChasticeMixed],
      [key |-> <<"i", "n", "t", "e", "r", "j">>, value |-> Citoslovce],
      [key |-> <<"U043C", "U0435", "U0436", "U0434">>, value |-> Citoslovce]>>

\* String.prototype.toLowerCase, token by token: the tokens with an upper-case
\* letter and their lower-case forms.
UpperLower ==
    {<<"A", "a">>, <<"B", "b">>, <<"C", "c">>, <<"D", "d">>, <<"E", "e">>,
     <<"F", "f">>, <<"G", "g">>, <<"H", "h">>, <<"I", "i">>, <<"J", "j">>,
     <<"K", "k">>, <<"L", "l">>, <<"M", "m">>, <<"N", "n">>, <<"O", "o">>,
     <<"P", "p">>, <<"Q", "q">>, <<"R", "r">>, <<"S", "s">>, <<"T", "t">>,
     <<"U", "u">>, <<"V", "v">>, <<"W", "w">>, <<"X", "x">>, <<"Y", "y">>,
     <<"Z", "z">>, <<"U010C", "U010D">>, <<"U017D", "U017E">>,
     <<"U0427", "U0447">>, <<"Basic", "basic">>, <<"Verbs", "verbs">>,
     <<"Dum", "dum">>, <<"Notes", "notes">>, <<"Grammar", "grammar">>,
     <<"Flashcards", "flashcards">>, <<"Cards", "cards">>,
     <<"Title", "title">>, <<"Vzor", "vzor">>, <<"Rule", "rule">>}

\* encodeURIComponent of the letters outside ASCII: the bytes of their UTF-8 form.
PercentEncoded ==
    {<<"U00E1", "%C3%A1">>, <<"U010D", "%C4%8D">>, <<"U00E9", "%C3%A9">>,
     <<"U011B", "%C4%9B">>, <<"U00ED", "%C3%AD">>, <<"U0159", "%C5%99">>,
     <<"U016F", "%C5%AF">>, <<"U017E", "%C5%BE">>, <<"U010C", "%C4%8C">>,
     <<"U017D", "%C5%BD">>, <<"U0430", "%D0%B0">>, <<"U0433", "%D0%B3">>,
     <<"U0434", "%D0%B4">>, <<"U0435", "%D0%B5">>, <<"U0436", "%D0%B6">>,
     <<"U0437", "%D0%B7">>, <<"U0438", "%D0%B8">>, <<"U043B", "%D0%BB">>,
     <<"U043C", "%D0%BC">>, <<"U043D", "%D0%BD">>, <<"U043E", "%D0%BE">>,
     <<"U043F", "%D0%BF">>, <<"U0440", "%D1%80">>, <<"U0441", "%D1%81">>,
     <<"U0442", "%D1%82">>, <<"U0443", "%D1%83">>, <<"U0447", "%D1%87">>,
     <<"U0449", "%D1%89">>, <<"U044E", "%D1%8E">>, <<"U0427", "%D0%A7">>}

(***************************************************************************)
(* Word-record normalizer.                                                 *)
(***************************************************************************)

\* The truth value JavaScript gives a value in a condition.
Truthy(val) ==
    \/ val.t = "str" /\ val.v # <<>>
    \/ val.t = "num" /\ val.v # <<"0">>
    \/ val.t = "bool" /\ val.v = <<"true">>

\* The text of a value inside a template literal.
ToStr(val) ==
    IF val.t = "undef" THEN <<"undefined">>
    ELSE IF val.t = "null" THEN <<"null">>
    ELSE val.v

Lower(t) ==
    IF \E p \in UpperLower : p[1] = t
    THEN (CHOOSE p \in UpperLower : p[1] = t)[2]
    ELSE t

toLowerCase(s) == [i \in 1..Len(s) |-> Lower(s[i])]

\* A grammar analysis is a record of values; isNull marks the analysis null, for
\* which every czechWordGrammar?.field is undefined.
NoGrammar ==
    [isNull |-> TRUE, partOfSpeechType |-> Undefined, partOfSpeechFull |-> Undefined,
     verbConjugationGroup |-> Undefined, verbVzor |-> Undefined,
     isIrregularVerb |-> Undefined, nounRod |-> Undefined, nounRodFull |-> Undefined,
     nounVzor |-> Undefined, formattedResult |-> Undefined]

\* The value of the first entry of table whose key occurs in wordType, or <<>>.
RECURSIVE FirstKeyword(_, _, _)
FirstKeyword(table, i, wordType) ==
    IF i > Len(table) THEN <<>>
    ELSE IF Includes(wordType, toLowerCase(table[i].key)) THEN table[i].value
    ELSE FirstKeyword(table, i + 1, wordType)

getPartOfSpeech(wordData, czechWordGrammar) ==
    IF Truthy(czechWordGrammar.partOfSpeechType)
    THEN czechWordGrammar.partOfSpeechType.v
    ELSE LET wordType ==
                 toLowerCase(IF Truthy(wordData.partOfSpeech)
                             THEN wordData.partOfSpeech.v ELSE <<>>)
             first == FirstKeyword(partOfSpeechMap, 1, wordType)
             second == FirstKeyword(additionalChecks, 1, wordType)
         IN  IF first # <<>> THEN first
             ELSE IF second # <<>> THEN second
             ELSE NOT_DEFINED

\* tableHeader.replace(/^#+\s*/, '').trim()
ThemeOf(tableHeader) == Trim(StripHeadingMarks(tableHeader))

Entry(key, val) == [k |-> <<key>>, val |-> val]

createFrontmatter(wordData, czechWordGrammar, tableHeader) ==
    LET partOfSpeech == getPartOfSpeech(wordData, czechWordGrammar)
        frontmatter ==
            <<Entry("slovo", wordData.slovo),
              Entry("translation", wordData.preklad),
              Entry("theme", Str(ThemeOf(tableHeader))),
              Entry("phrase", wordData.vyraz),
              Entry("phrase_translation", wordData.prekladVyrazu),
              Entry("partOfSpeech", Str(partOfSpeech)),
              Entry("partOfSpeechVerbose", czechWordGrammar.partOfSpeechFull)>>
    IN  IF partOfSpeech = Sloveso /\ ~czechWordGrammar.isNull
        THEN frontmatter \o
             <<Entry("verbConjugationGroup", czechWordGrammar.verbConjugationGroup),
               Entry("vzor", czechWordGrammar.verbVzor),
               Entry("isIrregularVerb", czechWordGrammar.isIrregularVerb)>>
        ELSE IF partOfSpeech = PodstatneJmeno /\ ~czechWordGrammar.isNull
        THEN frontmatter \o
             <<Entry("nounRod", czechWordGrammar.nounRod),
               Entry("nounRodFull", czechWordGrammar.nounRodFull),
               Entry("vzor", czechWordGrammar.nounVzor)>>
        ELSE frontmatter

formatPartOfSpeechAndPattern(czechWordGrammar) ==
    IF ~czechWordGrammar.isNull
    THEN ToStr(czechWordGrammar.partOfSpeechFull)
         \o (IF Truthy(czechWordGrammar.nounVzor)
             THEN <<". Grammar pattern is:", SP>> \o ToStr(czechWordGrammar.nounVzor)
             ELSE IF Truthy(czechWordGrammar.verbVzor)
             THEN <<". Grammar pattern is:", SP>> \o ToStr(czechWordGrammar.verbVzor)
             ELSE <<>>)
         \o <<NL>>
    ELSE <<>>

\* replace(/[^\p{L}\p{N}]+/gu, '_'): every maximal run of tokens that are neither
\* letters nor digits becomes one "_".
RECURSIVE ReplaceNonAlnum(_, _)
ReplaceNonAlnum(s, i) ==
    IF i > Len(s) THEN <<>>
    ELSE IF IsLetterOrDigit(s[i]) THEN <<s[i]>> \o ReplaceNonAlnum(s, i + 1)
    ELSE IF i > 1 /\ ~IsLetterOrDigit(s[i - 1]) THEN ReplaceNonAlnum(s, i + 1)
    ELSE <<"_">> \o ReplaceNonAlnum(s, i + 1)

\* replace(/^_|_$/g, ''): one "_" dropped at the start and one at the end.
StripUnderscores(s) ==
    LET a == IF Len(s) >= 1 /\ s[1] = "_" THEN 2 ELSE 1
        b == IF Len(s) >= a /\ s[Len(s)] = "_" THEN Len(s) - 1 ELSE Len(s)
    IN  SubSeq(s, a, b)

formatForTag(title) ==
    LET trimmedTitle == Trim(StripHeadingMarks(Trim(title)))
    IN  StripUnderscores(toLowerCase(ReplaceNonAlnum(trimmedTitle, 1)))

\* tags.join(' ')
RECURSIVE JoinSpace(_)
JoinSpace(tags) ==
    IF Len(tags) = 0 THEN <<>>
    ELSE IF Len(tags) = 1 THEN tags[1]
    ELSE tags[1] \o <<SP>> \o JoinSpace(Tail(tags))

\* type is "czwords" or "czphrase"; basePath is "#flashcards/" and the type.
createFlashcardDecks(wordData, czechWordGrammar, type) ==
    LET basePath == <<HASH, "flashcards/", type>>
        partOfSpeech == getPartOfSpeech(wordData, czechWordGrammar)
        themeTag == basePath \o <<"/theme/">> \o formatForTag(ToStr(wordData.titleTag))
        tags == IF partOfSpeech # <<>>
                THEN <<themeTag,
                       basePath \o <<"/">> \o toLowerCase(formatForTag(partOfSpeech))>>
                ELSE <<themeTag>>
        vzorTag ==
            IF Truthy(czechWordGrammar.verbVzor) \/ Truthy(czechWordGrammar.nounVzor)
            THEN <<basePath
                   \o (IF partOfSpeech = Sloveso
                       THEN <<"/sloveso_vzor/">> ELSE <<"/podstatne_jmeno_vzor/">>)
                   \o (IF Truthy(czechWordGrammar.verbVzor)
                       THEN ToStr(czechWordGrammar.verbVzor)
                       ELSE ToStr(czechWordGrammar.nounVzor))>>
            ELSE <<>>
        groupTag ==
            IF Truthy(czechWordGrammar.verbConjugationGroup)
            THEN <<basePath \o <<"/verbgroup/">>
                   \o ToStr(czechWordGrammar.verbConjugationGroup)>>
            ELSE <<>>
        rodTag ==
            IF Truthy(czechWordGrammar.nounRod)
            THEN <<basePath \o <<"/nounrod/">> \o ToStr(czechWordGrammar.nounRod)>>
            ELSE <<>>
    IN  tags \o vzorTag \o groupTag \o rodTag \o <<basePath \o <<"/all">>>>

\* The four spaces that indent every line of the flashcards template.
Indent == <<SP, SP, SP, SP>>

createFlashcardsSection(wordData, czechWordGrammar) ==
    LET wordTags == createFlashcardDecks(wordData, czechWordGrammar, "czwords")
        phraseTags == createFlashcardDecks(wordData, czechWordGrammar, "czphrase")
    IN  <<NL>> \o Indent \o JoinSpace(wordTags) \o <<NL>>
        \o Indent \o ToStr(wordData.slovo) \o <<SP, "!speak[">> \o ToStr(wordData.slovo)
        \o <<"]", SP, ":::", SP>> \o ToStr(wordData.preklad) \o <<NL>>
        \o Indent \o <<NL>>
        \o Indent \o JoinSpace(phraseTags) \o <<NL>>
        \o Indent \o ToStr(wordData.vyraz) \o <<SP, "!speak[">> \o ToStr(wordData.vyraz)
        \o <<"]", SP, ":::", SP>> \o ToStr(wordData.prekladVyrazu) \o <<NL>>
        \o Indent

\* encodeURIComponent, token by token: a letter outside ASCII becomes the
\* percent-encoded bytes of its UTF-8 form, a space "%20"; a word is unreserved.
EncodeTok(t) ==
    IF \E p \in PercentEncoded : p[1] = t
    THEN (CHOOSE p \in PercentEncoded : p[1] = t)[2]
    ELSE IF t = SP THEN "%20"
    ELSE IF t = QUOTE THEN "%22"
    ELSE t

encodeURIComponent(s) == [i \in 1..Len(s) |-> EncodeTok(s[i])]

(***************************************************************************)
(* Note reconciler.                                                        *)
(***************************************************************************)

\* The text of mainContent in unifiedNoteContent.  The two lines of input
\* fields are one chunk token each; the back quotes of the template are
\* written ' in the token's name.
MainContent(wordData, czechWordGrammar, tableHeader) ==
    <<HASH, SP>> \o ToStr(wordData.slovo) \o <<NL>>
    \o <<"Theme note: [[">> \o ThemeOf(tableHeader) \o <<"]]", NL>>
    \o formatPartOfSpeechAndPattern(czechWordGrammar) \o <<NL>>
    \o <<"Part Of Speech: 'INPUT[partOfSpeechSelect][:partOfSpeech]' Noun gender: 'INPUT[nounGenderSelect][:nounRod]'", NL>>
    \o <<"Grammar pattern is: 'INPUT[grammarPatternSelect][:vzor]'">>

\* The least position >= i that starts a line and where pat occurs, or 0: the
\* ^ of a pattern with the m flag.
FindAtLineStart(s, pat, i) ==
    LET Hit(k) == (k = 1 \/ s[k - 1] = NL) /\ MatchAt(s, pat, k)
    IN  First(i, Len(s) - Len(pat) + 1, Hit, 0)

\* The end of the lazy [\s\S]*?(?=\n##|$) under the m flag, from position j: $
\* holds before every line feed, so the span ends at the first line feed at or
\* after j, or at the end of the text.
LineEnd(s, j) ==
    LET k == FindFrom(s, <<NL>>, j) IN IF k = 0 THEN Len(s) + 1 ELSE k

\* The headword step of unifiedNoteContent: the pattern looks for a line
\* "## slovo", the block it writes starts with "# slovo".
UpsertMainContent(content, wordData, mainContent) ==
    LET heading == <<HASH, HASH, SP>> \o ToStr(wordData.slovo) \o <<NL>>
        i == FindAtLineStart(content, heading, 1)
    IN  IF i # 0
        THEN SubSeq(content, 1, i - 1) \o mainContent
               \o SubSeq(content, LineEnd(content, i + Len(heading)), Len(content))
        ELSE content \o <<NL>> \o mainContent

\* A Grammar section of the two links alone, the formatted result left out.
GrammarContentLinksOnly(wordData, czechWordGrammar) ==
    <<"link to prirucka: https://prirucka.ujc.cas.cz/?slovo=">>
    \o encodeURIComponent(ToStr(wordData.slovo)) \o <<NL>>
    \o <<"link to slovnik: https://slovnik.seznam.cz/preklad/cesky_anglicky/">>
    \o encodeURIComponent(ToStr(wordData.slovo)) \o Indent \o <<NL>>

GrammarContent(wordData, czechWordGrammar) ==
    <<"link to prirucka: https://prirucka.ujc.cas.cz/?slovo=">>
    \o encodeURIComponent(ToStr(wordData.slovo)) \o <<NL>>
    \o <<"link to slovnik: https://slovnik.seznam.cz/preklad/cesky_anglicky/">>
    \o encodeURIComponent(ToStr(wordData.slovo)) \o Indent \o <<NL>>
    \o (IF Truthy(czechWordGrammar.formattedResult)
        THEN czechWordGrammar.formattedResult.v ELSE <<>>)

\* The first position >= i of s that holds no line feed, or Len(s) + 1.
SkipLineFeeds(s, i) ==
    LET NoFeed(k) == s[k] # NL
    IN  First(i, Len(s), NoFeed, Len(s) + 1)

\* The global replace of the pattern ---\n+ by three dashes and one line feed:
\* after every run of three dashes that a line feed follows, wherever it is in
\* the text, the run of line feeds becomes one.
RECURSIVE CollapseAfterDashes(_, _)
CollapseAfterDashes(s, i) ==
    LET k == FindFrom(s, <<DASH, DASH, DASH, NL>>, i)
    IN  IF k = 0 THEN SubSeq(s, i, Len(s))
        ELSE SubSeq(s, i, k - 1) \o <<DASH, DASH, DASH, NL>>
               \o CollapseAfterDashes(s, SkipLineFeeds(s, k + 4))

\* content.split('\n').map(line => line.trim()).join('\n')
TrimLines(s) ==
    LET lines == SplitLines(s)
    IN  JoinLines([i \in 1..Len(lines) |-> Trim(lines[i])])

\* existingContent is a text; the null of a new note is the empty text, which
\* is what existingContent || '' makes of it.
unifiedNoteContent(existingContent, wordData, czechWordGrammar, tableHeader, flashcardsSection) ==
    LET newFrontmatter == createFrontmatter(wordData, czechWordGrammar, tableHeader)
        c1 == updateFrontmatterContent(existingContent, newFrontmatter)
        c2 == UpsertMainContent(c1, wordData,
                                MainContent(wordData, czechWordGrammar, tableHeader))
        c3 == addOrUpdateSection(c2, flashcardsSection,
                                 createFlashcardsSection(wordData, czechWordGrammar))
        c4 == addOrUpdateSection(c3, <<"Grammar">>,
                                 GrammarContent(wordData, czechWordGrammar))
    IN  TrimLines(CollapseAfterDashes(c4, 1))

NullContent == <<>>

createNoteContent(wordData, czechWordGrammar, tableHeader, flashcardsSection) ==
    unifiedNoteContent(NullContent, wordData, czechWordGrammar, tableHeader,
                       flashcardsSection)

\* newFrontmatter is the mapping createFrontmatter returned (the caller passes
\* the object, which frontmatterToObjectType returns as it is).
updateExistingNote(existingContent, newFrontmatter, czechWordGrammar, withRemoteAnalyze, flashcardsSection) ==
    LET wordData ==
            [slovo |-> Get(newFrontmatter, <<"slovo">>),
             preklad |-> Get(newFrontmatter, <<"translation">>),
             vyraz |-> Get(newFrontmatter, <<"phrase">>),
             prekladVyrazu |-> Get(newFrontmatter, <<"phrase_translation">>),
             titleTag |-> Get(newFrontmatter, <<"theme">>),
             partOfSpeech |-> Get(newFrontmatter, <<"partOfSpeech">>)]
    IN  unifiedNoteContent(existingContent, wordData, czechWordGrammar,
                           ToStr(Get(newFrontmatter, <<"theme">>)), flashcardsSection)

(***************************************************************************)
(* State.  The vault and the table batch are the plugin's state; the other *)
(* variables hold the arguments and results of the pure functions of       *)
(* wordNote.ts while they are exercised on their own.                       *)
(***************************************************************************)
VARIABLES
    mergePc,          \* "ready" before mergeFrontmatter ran, "merged" after
    mergeExisting,    \* the mapping parsed from the note
    mergeIncoming,    \* the mapping computed from the word data
    mergeResult,      \* what mergeFrontmatter returned
    reconcileArgs,    \* the arguments w, g, t, s of unifiedNoteContent
    reconcileOuts,    \* the outputs of the successive calls, oldest first
    sectionPc,        \* "ready" before addOrUpdateSection ran, "spliced" after
    sectionDoc,       \* the document handed to addOrUpdateSection
    sectionBody,      \* the new section content
    sectionOut,       \* what addOrUpdateSection returned
    vault,            \* path -> text of the note, or NoFile
    history,          \* what happened to the note of the lifecycle, oldest first
    useRemoteGrammarAnalysis, \* the setting of that name
    batchPc,          \* position of analyzeCzechGrammarTable
    activeFile,       \* the text of the page the table command runs on
    table,            \* what the command found on the page: heading, header cells, rows
    rowIndex,         \* the row the for-loop is at
    rowGrammar,       \* the analysis of the current row
    processedWords,   \* the counter of the loop
    batchLog,         \* per handled row: its outcome and its note before/after
    callPc,           \* "ready" before a function on its own was called, "returned" after
    callArgs,         \* the arguments of the call
    callResult,       \* what the call returned
    retryPc,          \* position of analyzeCzechWordGrammar and of retryRequest inside it
    retryArgs,        \* the retries and delay retryRequest was first called with
    retries,          \* the parameter retries of the running retryRequest
    delay,            \* the parameter delay of the running retryRequest
    retryLog,         \* the calls of fn and the waits so far, oldest first
    retryOutcome,     \* what the outermost retryRequest returned or threw
    analysisResult,   \* what analyzeCzechWordGrammar returned
    serverURLs,       \* settings.serverURLs
    currentServerURLIndex, \* the field of that name: a number or NaN
    requestQueue,     \* the field of that name: the queued requests, oldest first
    isProcessingQueue, \* the field of that name
    loops,            \* the processQueue calls that are past their guard
    inFlight,         \* the analyzeCzechWordGrammar calls that did not return yet
    calls,            \* how many times analyzeCzechWordGrammar was called
    lastAnalysis,     \* "none", "ended" after an analysis returned, "slept" after the sleep
    pagePc,           \* position of analyzeCurrentPageCzechGrammar
    pageFrontmatter,  \* the frontmatter the current-page command read from the cache
    pageGrammar,      \* the analysis the current-page command holds
    urlEdits,         \* how many times the serverURLs setting was edited
    queued,           \* how many requests queueWordAnalysis added
    taken,            \* the requests processQueue shifted from the queue, oldest first
    settled           \* the requests whose promise was resolved or rejected

mergeVars == <<mergePc, mergeExisting, mergeIncoming, mergeResult>>
reconcileVars == <<reconcileArgs, reconcileOuts>>
sectionVars == <<sectionPc, sectionDoc, sectionBody, sectionOut>>
noteVars == <<vault, history>>
batchVars == <<useRemoteGrammarAnalysis, batchPc, activeFile, table, rowIndex, rowGrammar, processedWords, batchLog>>
callVars == <<callPc, callArgs, callResult>>
retryVars == <<retryPc, retryArgs, retries, delay, retryLog, retryOutcome, analysisResult>>
urlVars == <<serverURLs, currentServerURLIndex, calls, urlEdits>>
queueVars == <<requestQueue, isProcessingQueue, loops, queued, taken, settled>>
flightVars == <<inFlight, lastAnalysis>>
pageVars == <<pagePc, pageFrontmatter, pageGrammar>>
netVars == <<urlVars, queueVars, flightVars, pageVars>>
vars == <<mergeVars, reconcileVars, sectionVars, noteVars, batchVars, callVars, retryVars, netVars>>

NoFile == <<"<no file>">>

\* The locals of the table command before a page was read.
NoTable ==
    [found |-> FALSE, headerLine |-> 0, tableHeader |-> <<>>, tableHeaderColumns |-> <<>>,
     rows |-> <<>>]

\* tableData, tableHeader and tableHeaderColumns of the running table command.
tableData == [r \in 1..Len(table.rows) |-> table.rows[r].rowData]
pageHeader == table.tableHeader
pageColumns == table.tableHeaderColumns

(***************************************************************************)
(* Inputs.                                                                 *)
(***************************************************************************)
Jit == <<"j", "U00ED", "t">>
Dum == <<"d", "U016F", "m">>

VerbGrammar ==
    [isNull |-> FALSE, partOfSpeechType |-> Str(Sloveso),
     partOfSpeechFull |-> Str(Sloveso \o <<SP, "x">>),
     verbConjugationGroup |-> Num(<<"1">>), verbVzor |-> Str(<<"Dum">>),
     isIrregularVerb |-> Bool(<<"false">>), nounRod |-> Undefined,
     nounRodFull |-> Undefined, nounVzor |-> Undefined,
     formattedResult |-> Str(<<"Vzor", COLON, SP, "Dum", NL, SP, SP, "Rule", SP, "x">>)]

NounGrammar ==
    [isNull |-> FALSE, partOfSpeechType |-> Str(PodstatneJmeno),
     partOfSpeechFull |-> Str(PodstatneJmeno),
     verbConjugationGroup |-> Undefined, verbVzor |-> Undefined,
     isIrregularVerb |-> Undefined, nounRod |-> Str(<<"M">>),
     nounRodFull |-> Str(<<"M", SP, "x">>), nounVzor |-> Str(<<"Dum">>),
     formattedResult |-> Undefined]

BasicVerbs == <<HASH, HASH, SP, "Basic", SP, "Verbs">>

\* A row as extractRowData builds it.
Row(slovo, preklad, vyraz, prekladVyrazu, wordNote, partOfSpeech, title) ==
    [slovo |-> Str(slovo), preklad |-> Str(preklad), vyraz |-> Str(vyraz),
     prekladVyrazu |-> Str(prekladVyrazu), wordNote |-> Str(wordNote),
     partOfSpeech |-> Str(partOfSpeech), titleTag |-> Str(formatForTag(title))]

ToGo == <<"to", SP, "go">>
ToMake == <<"to", SP, "make">>
Quoted == <<"a", QUOTE, "b">>

(***************************************************************************)
(* mergeFrontmatter on its own.                                            *)
(***************************************************************************)
MaxEntries == 2

MergeKeys == {<<"translation">>, <<"vzor">>, <<"tags">>}
ExistingValues == {Null, Str(<<>>), Str(NOT_DEFINED), Str(<<"x">>)}
IncomingValues == {Undefined, Null, Str(<<"y">>), Num(<<"1">>)}

\* The objects with at most MaxEntries own keys.
Mappings(values) ==
    LET Entries == [k : MergeKeys, val : values]
    IN  UNION {{m \in [1..n -> Entries] :
                    \A i, j \in 1..n : m[i].k = m[j].k => i = j} : n \in 0..MaxEntries}

idleMerge ==
    /\ mergePc = "idle"
    /\ mergeExisting = <<>>
    /\ mergeIncoming = <<>>
    /\ mergeResult = <<>>

idleReconcile ==
    /\ reconcileArgs = <<>>
    /\ reconcileOuts = <<>>

idleSection ==
    /\ sectionPc = "idle"
    /\ sectionDoc = <<>>
    /\ sectionBody = <<>>
    /\ sectionOut = <<>>

idleNote ==
    /\ vault = <<>>
    /\ history = <<>>

idleBatch ==
    /\ useRemoteGrammarAnalysis = FALSE
    /\ batchPc = "idle"
    /\ activeFile = <<>>
    /\ table = NoTable
    /\ rowIndex = 0
    /\ rowGrammar = NoGrammar
    /\ processedWords = 0
    /\ batchLog = <<>>

idleCall ==
    /\ callPc = "idle"
    /\ callArgs = <<>>
    /\ callResult = <<>>

idleRetry ==
    /\ retryPc = "idle"
    /\ retryArgs = <<>>
    /\ retries = 0
    /\ delay = 0
    /\ retryLog = <<>>
    /\ retryOutcome = <<>>
    /\ analysisResult = <<>>

idleNet ==
    /\ serverURLs = <<>>
    /\ currentServerURLIndex = 0
    /\ requestQueue = <<>>
    /\ isProcessingQueue = FALSE
    /\ loops = <<>>
    /\ inFlight = {}
    /\ calls = 0
    /\ lastAnalysis = "none"
    /\ pagePc = "idle"
    /\ pageFrontmatter = <<>>
    /\ pageGrammar = NoGrammar
    /\ urlEdits = 0
    /\ queued = 0
    /\ taken = <<>>
    /\ settled = {}

MergeInit ==
    /\ mergePc = "ready"
    /\ mergeExisting \in Mappings(ExistingValues)
    /\ mergeIncoming \in Mappings(IncomingValues)
    /\ mergeResult = <<>>
    /\ idleReconcile /\ idleSection /\ idleNote /\ idleBatch /\ idleCall
    /\ idleRetry /\ idleNet

Merge ==
    /\ mergePc = "ready"
    /\ mergeResult' = mergeFrontmatter(mergeExisting, mergeIncoming)
    /\ mergePc' = "merged"
    /\ UNCHANGED <<mergeExisting, mergeIncoming, reconcileVars, sectionVars, noteVars,
                   batchVars, callVars, retryVars, netVars>>

MergeNext == Merge

MergeSpec == MergeInit /\ [][MergeNext]_vars

\* The keys that the fill-only policy fills: the incoming value is there and
\* the existing one is absent, null, empty or the sentinel.
C3_Filled ==
    {k \in Keys(mergeIncoming) :
        /\ Get(mergeIncoming, k) \notin {Undefined, Null}
        /\ \/ ~HasKey(mergeExisting, k)
           \/ Get(mergeExisting, k) \in {Null, Str(<<>>), Str(NOT_DEFINED)}}

\* C3: mergeFrontmatter fills a key of incoming (value neither undefined nor
\* null) exactly when existing has it absent, null, "" or "NOT_DEFINED" and
\* keeps the existing value otherwise; every other key of existing is kept
\* with its value, and no other key is added.
C3_FillOnlyMerge ==
    mergePc = "merged" =>
        /\ \A k \in Keys(mergeIncoming) :
               Get(mergeIncoming, k) \notin {Undefined, Null} =>
                   Get(mergeResult, k) = IF k \in C3_Filled
                                         THEN Get(mergeIncoming, k)
                                         ELSE Get(mergeExisting, k)
        /\ \A k \in Keys(mergeExisting) \ C3_Filled :
               HasKey(mergeResult, k) /\ Get(mergeResult, k) = Get(mergeExisting, k)
        /\ Keys(mergeResult) = Keys(mergeExisting) \cup C3_Filled

\* A merge that fills a sentinel and keeps a user's value against an incoming
\* one.
C3_Witness ==
    /\ mergePc = "merged"
    /\ Get(mergeExisting, <<"vzor">>) = Str(NOT_DEFINED)
    /\ Get(mergeIncoming, <<"vzor">>) = Str(<<"y">>)
    /\ Get(mergeResult, <<"vzor">>) = Str(<<"y">>)
    /\ Get(mergeExisting, <<"translation">>) = Str(<<"x">>)
    /\ Get(mergeIncoming, <<"translation">>) = Str(<<"y">>)
    /\ Get(mergeResult, <<"translation">>) = Str(<<"x">>)

(***************************************************************************)
(* Reading a note as a Markdown and YAML reader reads it.  The properties  *)
(* below observe the notes through these operators.                        *)
(***************************************************************************)
Dashes == <<DASH, DASH, DASH>>

CountLines(ls, l) == Cardinality({i \in 1..Len(ls) : ls[i] = l})

\* The index of the first line equal to l at or after from, or 0.
LineIndex(ls, l, from) ==
    LET Hit(i) == ls[i] = l IN First(from, Len(ls), Hit, 0)

TrimEach(ls) == [i \in 1..Len(ls) |-> Trim(ls[i])]

\* The index of the line that closes the frontmatter block, or 0.
ClosingLine(ls) ==
    IF Len(ls) >= 1 /\ ls[1] = Dashes THEN LineIndex(ls, Dashes, 2) ELSE 0

\* The index of the line "key: ..." of the frontmatter block, or 0.
KeyLine(ls, key) ==
    LET Hit(i) == /\ Len(ls[i]) > Len(key)
                  /\ SubSeq(ls[i], 1, Len(key)) = key
                  /\ ls[i][Len(key) + 1] = COLON
    IN  First(2, ClosingLine(ls) - 1, Hit, 0)

\* The text of a double-quoted YAML scalar: \c stands for c.
RECURSIVE Unescape(_)
Unescape(s) ==
    IF Len(s) = 0 THEN <<>>
    ELSE IF s[1] = BSL /\ Len(s) >= 2 THEN <<s[2]>> \o Unescape(SubSeq(s, 3, Len(s)))
    ELSE <<s[1]>> \o Unescape(Tail(s))

YamlScalar(text) ==
    LET t == Trim(text)
    IN  IF Len(t) >= 2 /\ t[1] = QUOTE /\ t[Len(t)] = QUOTE
        THEN Unescape(SubSeq(t, 2, Len(t) - 1))
        ELSE t

\* The node of a top-level key: its scalar text and the indented lines under
\* it (a block sequence or a nested mapping).
YamlNode(note, key) ==
    LET ls == SplitLines(note)
        i == KeyLine(ls, key)
        close == ClosingLine(ls)
        Flush(j) == Len(ls[j]) = 0 \/ ls[j][1] # SP
        last == First(i + 1, close - 1, Flush, close) - 1
    IN  IF close = 0 \/ i = 0
        THEN [present |-> FALSE, scalar |-> <<>>, block |-> <<>>]
        ELSE [present |-> TRUE,
              scalar |-> YamlScalar(SubSeq(ls[i], Len(key) + 2, Len(ls[i]))),
              block |-> SubSeq(ls, i + 1, last)]

(***************************************************************************)
(* unifiedNoteContent on its own: the first call builds a new note, every  *)
(* further call is handed the output of the one before.                    *)
(***************************************************************************)
MaxRuns == 3

ReconcileRows ==
    {Row(slovo, preklad, slovo \o <<SP, "x">>, <<"go", SP, "x">>, <<>>, partOfSpeech, title) :
        slovo \in {Jit, Dum}, preklad \in {ToGo, <<>>, Quoted},
        partOfSpeech \in {<<>>, <<"v", "e", "r", "b">>}, title \in {BasicVerbs}}

ReconcileInit ==
    /\ reconcileArgs \in [w : ReconcileRows, g : {NoGrammar, VerbGrammar, NounGrammar},
                          t : {BasicVerbs}, s : {<<"Flashcards">>, <<"Cards">>}]
    /\ reconcileOuts = <<>>
    /\ idleMerge /\ idleSection /\ idleNote /\ idleBatch /\ idleCall
    /\ idleRetry /\ idleNet

Reconcile ==
    /\ Len(reconcileOuts) < MaxRuns
    /\ LET existingContent == IF reconcileOuts = <<>> THEN NullContent
                              ELSE reconcileOuts[Len(reconcileOuts)]
       IN  reconcileOuts' =
               Append(reconcileOuts,
                      unifiedNoteContent(existingContent, reconcileArgs.w, reconcileArgs.g,
                                         reconcileArgs.t, reconcileArgs.s))
    /\ UNCHANGED <<reconcileArgs, mergeVars, sectionVars, noteVars, batchVars, callVars,
                   retryVars, netVars>>

ReconcileNext == Reconcile

ReconcileSpec == ReconcileInit /\ [][ReconcileNext]_vars

\* C1: the second reconcile of a fresh note, with the same arguments, returns
\* the text the first one returned.
C1_IdempotentFromFresh ==
    Len(reconcileOuts) >= 2 => reconcileOuts[2] = reconcileOuts[1]

\* The frontmatter block of out holds exactly the defined fields of fm, each
\* with its value.
HoldsFields(out, fm) ==
    LET defined == {i \in 1..Len(fm) : fm[i].val # Undefined}
    IN  /\ ClosingLine(SplitLines(out)) = Cardinality(defined) + 2
        /\ \A i \in defined :
               /\ YamlNode(out, fm[i].k).present
               /\ YamlNode(out, fm[i].k).scalar = ToStr(fm[i].val)
               /\ YamlNode(out, fm[i].k).block = <<>>

\* The flashcard line "front !speak[front] ::: back" as a reader sees it.
FlashcardLine(front, back) ==
    Trim(ToStr(front) \o <<SP, "!speak[">> \o ToStr(front) \o <<"]", SP, ":::", SP>>
         \o ToStr(back))

\* Some line of ls[from..to] is a tag line of the deck type and the line after
\* it is the flashcard line.
HasDeck(ls, from, to, type, front, back) ==
    \E i \in from..(to - 1) :
        /\ Len(ls[i]) >= 3
        /\ SubSeq(ls[i], 1, 3) = <<HASH, "flashcards/", type>>
        /\ ls[i + 1] = FlashcardLine(front, back)

MaxBlocks == 3

GrammarHeading == <<HASH, HASH, SP, "Grammar">>
NotesHeading == <<HASH, HASH, SP, "Notes">>

Blocks ==
    {<<"a", SP, "b", NL>>,
     GrammarHeading \o <<NL, "x", NL, NL>>,
     NotesHeading \o <<NL, "my", SP, "note", NL>>,
     NotesHeading \o <<NL, "a", SP>> \o GrammarHeading \o <<NL, NL>>,
     <<HASH, SP, "Title", NL, "y", NL>>,
     <<HASH, HASH, HASH, SP, "Rule", NL, "b", NL>>,
     <<HASH>> \o GrammarHeading \o <<NL, "y", NL>>}

RECURSIVE Concat(_)
Concat(texts) == IF Len(texts) = 0 THEN <<>> ELSE texts[1] \o Concat(Tail(texts))

\* The documents of at most MaxBlocks blocks, no block twice.
Documents ==
    UNION {{Concat(bs) : bs \in {b \in [1..n -> Blocks] :
                                    \A i, j \in 1..n : b[i] = b[j] => i = j}} :
           n \in 1..MaxBlocks}

SectionInit ==
    /\ sectionPc = "ready"
    /\ sectionDoc \in Documents
    /\ sectionBody \in {<<"Vzor", COLON, SP, "Dum">>, <<"end", NL, "Rule">>}
    /\ sectionOut = <<>>
    /\ idleMerge /\ idleReconcile /\ idleNote /\ idleBatch /\ idleCall
    /\ idleRetry /\ idleNet

Splice ==
    /\ sectionPc = "ready"
    /\ sectionOut' = addOrUpdateSection(sectionDoc, <<"Grammar">>, sectionBody)
    /\ sectionPc' = "spliced"
    /\ UNCHANGED <<sectionDoc, sectionBody, mergeVars, reconcileVars, noteVars, batchVars,
                   callVars, retryVars, netVars>>

SectionNext == Splice

SectionSpec == SectionInit /\ [][SectionNext]_vars

IsHeadingLine(l) == Len(l) >= 1 /\ l[1] = HASH

\* The lines of the section under the first line equal to heading: that line
\* and the lines after it up to the next heading line, or <<>>.
SectionLines(ls, heading) ==
    LET h == LineIndex(ls, heading, 1)
        Heading(i) == IsHeadingLine(ls[i])
        e == First(h + 1, Len(ls), Heading, Len(ls) + 1)
    IN  IF h = 0 THEN <<>> ELSE SubSeq(ls, h, e - 1)

\* C5: when the document has a Grammar and a Notes section, upserting Grammar
\* leaves the heading line and the body lines of Notes as they were.
C5_NotesUntouched ==
    (/\ sectionPc = "spliced"
     /\ LineIndex(SplitLines(sectionDoc), GrammarHeading, 1) # 0
     /\ LineIndex(SplitLines(sectionDoc), NotesHeading, 1) # 0)
    => SectionLines(SplitLines(sectionOut), NotesHeading)
         = SectionLines(SplitLines(sectionDoc), NotesHeading)

\* C20: when no whole line of the document equals "## Grammar", a line
\* "### Grammar" or a line that holds "## Grammar" after other text included,
\* the section is not found: the document is kept as it is and the new section
\* is appended after an empty line.
C20_FoundOnlyOnWholeLine ==
    (/\ sectionPc = "spliced"
     /\ LineIndex(SplitLines(sectionDoc), GrammarHeading, 1) = 0)
    => sectionOut = sectionDoc \o <<NL, NL>> \o GrammarHeading \o <<NL>> \o sectionBody

\* C6: the replaced span is the heading line of the section and the lines up
\* to the next line that starts with #, or to the end of the document; what
\* comes before and after it, a level-1 section included, is kept.
C6_SpanEndsAtNextHeading ==
    (/\ sectionPc = "spliced"
     /\ LineIndex(SplitLines(sectionDoc), GrammarHeading, 1) # 0
     /\ FindFrom(sectionDoc, GrammarHeading \o <<NL>>, 1)
          = FindAtLineStart(sectionDoc, GrammarHeading \o <<NL>>, 1))
    => LET ls == SplitLines(sectionDoc)
           h == LineIndex(ls, GrammarHeading, 1)
           Heading(i) == IsHeadingLine(ls[i])
           e == First(h + 1, Len(ls), Heading, Len(ls) + 1)
       IN  SplitLines(sectionOut)
             = SubSeq(ls, 1, h - 1) \o <<GrammarHeading>> \o SplitLines(sectionBody)
                 \o SubSeq(ls, e, Len(ls))

(***************************************************************************)
(* Writing a note into the vault.                                          *)
(***************************************************************************)
\* DEFAULT_SETTINGS
flashcardsNoteSection == <<"Flashcards">>
newWordsFolder == <<"CzechGrammarWords">>
wordColumn == <<"Slovo">>
translationColumn == <<"P", "U0159", "e", "k", "l", "a", "d">>
phraseColumn == <<"V", "U00FD", "r", "a", "z">>
phraseTranslationColumn == translationColumn \o <<SP>> \o phraseColumn \o <<"u">>
wordNoteColumn == <<"P", "o", "z", "n", "U00E1", "m", "k", "a">>
partOfSpeechColumn == <<"S", "l", "o", "v", "n", "U00ED", SP, "d", "r", "u", "h">>

NoMatch == <<"<no match>">>

\* match[2] of noteLink.match(/\[(.*?)\]\((.*?)\)/): the text between the
\* first "](" after the first "[" that has one, and the first ")" after it.
LinkPath(noteLink) ==
    LET n == Len(noteLink)
        Mid(j) == /\ noteLink[j] = "]" /\ noteLink[j + 1] = "("
                  /\ \E k \in (j + 2)..n : noteLink[k] = ")"
        Opens(i) == noteLink[i] = "[" /\ \E j \in (i + 1)..(n - 1) : Mid(j)
        i == First(1, n, Opens, 0)
        j == First(i + 1, n - 1, Mid, 0)
        Close(k) == noteLink[k] = ")"
        k == First(j + 2, n, Close, 0)
    IN  IF i = 0 THEN NoMatch ELSE SubSeq(noteLink, j + 2, k - 1)

determineFilePath(wordData, tableHeaderColumns) ==
    LET path == LinkPath(ToStr(wordData.wordNote))
    IN  IF /\ \E c \in 1..Len(tableHeaderColumns) : tableHeaderColumns[c] = wordNoteColumn
           /\ Truthy(wordData.wordNote)
           /\ path # NoMatch
           /\ \E p \in 1..Len(path) : path[p] = "/"
        THEN path
        ELSE newWordsFolder \o <<"/">> \o ToStr(wordData.slovo) \o <<".md">>

\* A writer without the guarantee: it leaves the heading of the note in the
\* file whether or not a call threw.
createOrUpdateWordNotePartial(files, filePath, wordData, czechWordGrammar, withRemoteAnalyze, tableHeader, thrown) ==
    [files EXCEPT ![filePath] = <<HASH, SP>> \o ToStr(wordData.slovo)]

\* A call of createOrUpdateWordNote whose vault calls all succeed writes the
\* reconciled text of an existing note, or the text of a new one; when a call
\* throws (thrown), the catch block leaves the vault as it was.
createOrUpdateWordNote(files, filePath, wordData, czechWordGrammar, withRemoteAnalyze, tableHeader, thrown) ==
    IF thrown THEN files
    ELSE IF files[filePath] # NoFile
    THEN [files EXCEPT ![filePath] =
              updateExistingNote(files[filePath],
                                 createFrontmatter(wordData, czechWordGrammar, tableHeader),
                                 czechWordGrammar, withRemoteAnalyze, flashcardsNoteSection)]
    ELSE [files EXCEPT ![filePath] =
              createNoteContent(wordData, czechWordGrammar, tableHeader,
                                flashcardsNoteSection)]

(***************************************************************************)
(* The life of one note: the plugin creates it and reconciles it again,    *)
(* the user edits it in between.                                           *)
(***************************************************************************)
MaxSteps == 3

TableColumns == <<wordColumn, translationColumn>>

NoteRows ==
    {Row(Jit, preklad, <<>>, <<>>, <<>>, <<>>, BasicVerbs) : preklad \in {ToGo, <<"go">>}}

NotePath == newWordsFolder \o <<"/">> \o Jit \o <<".md">>

UserValues == {ToMake, Quoted}

UserTags == <<<<"tags", COLON>>, <<SP, SP, DASH, SP, "a">>, <<SP, SP, DASH, SP, "b">>>>

UserNotes ==
    <<NotesHeading, <<SP, SP, "my", SP, "note", SP>>, <<>>, <<"b">>>>

Init ==
    /\ vault = [p \in {NotePath} |-> NoFile]
    /\ history = <<>>
    /\ idleMerge /\ idleReconcile /\ idleSection /\ idleBatch /\ idleCall
    /\ idleRetry /\ idleNet

note == vault[NotePath]

Happened(op) == \E i \in 1..Len(history) : history[i].op = op

Event(op, key, value, before, fm) ==
    [op |-> op, key |-> key, value |-> value, before |-> before, fm |-> fm]

\* The plugin processes a row of the headword: createOrUpdateWordNote with
\* the analysis of the word, or none.
ProcessRow ==
    /\ Len(history) < MaxSteps
    /\ \E wordData \in NoteRows, czechWordGrammar \in {NoGrammar, VerbGrammar, NounGrammar} :
           /\ vault' = createOrUpdateWordNote(vault,
                           determineFilePath(wordData, TableColumns), wordData,
                           czechWordGrammar, ~czechWordGrammar.isNull, BasicVerbs, FALSE)
           /\ history' = Append(history,
                           Event("reconcile", <<>>, <<>>, note,
                                 createFrontmatter(wordData, czechWordGrammar, BasicVerbs)))
    /\ UNCHANGED <<mergeVars, reconcileVars, sectionVars, batchVars, callVars, retryVars, netVars>>

\* The user retypes the translation in the frontmatter, as a quoted scalar.
UserEditsTranslation ==
    /\ Len(history) < MaxSteps
    /\ note # NoFile
    /\ \E value \in UserValues :
           LET ls == SplitLines(note)
               i == KeyLine(ls, <<"translation">>)
               line == <<"translation", COLON, SP, QUOTE>> \o EscapeString(value)
                         \o <<QUOTE>>
           IN  /\ i # 0
               /\ vault' = [vault EXCEPT ![NotePath] =
                               JoinLines([ls EXCEPT ![i] = line])]
               /\ history' = Append(history,
                                    Event("edit", <<"translation">>, value, note, <<>>))
    /\ UNCHANGED <<mergeVars, reconcileVars, sectionVars, batchVars, callVars, retryVars, netVars>>

\* The user adds a list of tags at the end of the frontmatter block.
UserAddsTags ==
    /\ Len(history) < MaxSteps
    /\ note # NoFile
    /\ ~Happened("tags")
    /\ LET ls == SplitLines(note)
           close == ClosingLine(ls)
       IN  /\ close # 0
           /\ vault' = [vault EXCEPT ![NotePath] =
                           JoinLines(SubSeq(ls, 1, close - 1) \o UserTags
                                     \o SubSeq(ls, close, Len(ls)))]
    /\ history' = Append(history, Event("tags", <<"tags">>, <<>>, note, <<>>))
    /\ UNCHANGED <<mergeVars, reconcileVars, sectionVars, batchVars, callVars, retryVars, netVars>>

\* The user adds a section of their own at the end of the note.
UserAppendsNotes ==
    /\ Len(history) < MaxSteps
    /\ note # NoFile
    /\ ~Happened("notes")
    /\ vault' = [vault EXCEPT ![NotePath] = note \o <<NL>> \o JoinLines(UserNotes)]
    /\ history' = Append(history, Event("notes", <<>>, <<>>, note, <<>>))
    /\ UNCHANGED <<mergeVars, reconcileVars, sectionVars, batchVars, callVars, retryVars, netVars>>

Next ==
    \/ ProcessRow
    \/ UserEditsTranslation
    \/ UserAddsTags
    \/ UserAppendsNotes

Spec == Init /\ [][Next]_vars

LastIs(op) == Len(history) >= 1 /\ history[Len(history)].op = op

\* C2: a string the user put into a frontmatter field is still the value of
\* that field after any number of later reconciles.
C2_UserEditSurvives ==
    \A i \in 1..Len(history) :
        (history[i].op = "edit" /\ \A j \in (i + 1)..Len(history) : history[j].op # "edit")
        => /\ YamlNode(note, history[i].key).present
           /\ YamlNode(note, history[i].key).scalar = history[i].value

\* The top-level keys of the frontmatter block.
TopLevelKeys(text) ==
    LET ls == SplitLines(text)
    IN  {SubSeq(ls[i], 1, 1) : i \in {j \in 2..(ClosingLine(ls) - 1) :
                                        Len(ls[j]) >= 2 /\ ls[j][2] = COLON}}

\* The keys of the note that the new word data fills: the data has a value and
\* the note has none, an empty one or the sentinel.
FilledKeys(before, fm) ==
    {k \in TopLevelKeys(before) :
        /\ Get(fm, k) \notin {Undefined, Null}
        /\ YamlNode(before, k).block = <<>>
        /\ YamlNode(before, k).scalar \in {<<>>, <<"null">>, NOT_DEFINED}}

\* C4: a reconcile of an existing note keeps every top-level key of its
\* frontmatter that the word data does not fill, with the value it had, a block
\* sequence under the key included.
C4_FrontmatterKept ==
    (LastIs("reconcile") /\ history[Len(history)].before # NoFile) =>
        LET before == history[Len(history)].before
            fm == history[Len(history)].fm
        IN  \A k \in TopLevelKeys(before) \ FilledKeys(before, fm) :
                YamlNode(note, k) = YamlNode(before, k)

RTrim(l) == SubSeq(l, 1, SkipSpaceBack(l, Len(l)))

\* C7: the lines of the user's own section are in the note after every
\* reconcile, in their order, blank lines and leading white space as the user
\* wrote them, trailing white space at most removed.
C7_UserLinesKept ==
    (Happened("notes") /\ note # NoFile) =>
        LET ls == SplitLines(note)
        IN  \E o \in 0..(Len(ls) - Len(UserNotes)) :
                \A i \in 1..Len(UserNotes) : ls[o + i] \in {UserNotes[i], RTrim(UserNotes[i])}

\* C8: the note has exactly one line "# headword" after every reconcile,
\* whatever the user added in between.
C8_OneHeadwordLine ==
    note # NoFile => CountLines(SplitLines(note), <<HASH, SP>> \o Jit) = 1

(***************************************************************************)
(* The table of the active page: analyzeCzechGrammarTable finds the header *)
(* row under a heading and collects the rows, extractRowData turns the     *)
(* cells of a row line into the word data.                                 *)
(***************************************************************************)
\* String.prototype.split('|').
RECURSIVE SplitCells(_)
SplitCells(s) ==
    LET i == FindFrom(s, <<PIPE>>, 1)
    IN  IF i = 0 THEN <<s>>
        ELSE <<SubSeq(s, 1, i - 1)>> \o SplitCells(SubSeq(s, i + 1, Len(s)))

\* line.split('|').map(col => col.trim()).filter(col => col): the cells of a
\* line that are not empty, in order.
Columns(line) ==
    LET parts == SplitCells(line)
        trimmed == [c \in 1..Len(parts) |-> Trim(parts[c])]
        NotEmpty(col) == col # <<>>
    IN  SelectSeq(trimmed, NotEmpty)

\* Array.prototype.indexOf counted from 1, 0 for JavaScript's -1.
IndexOf(columns, name) ==
    LET Is(c) == columns[c] = name
    IN  First(1, Len(columns), Is, 0)

\* columns[index]: undefined past the end of the array.
ColumnAt(columns, index) ==
    IF index <= Len(columns) THEN Str(columns[index]) ELSE Undefined

\* columnIndexes.x !== -1 ? columns[columnIndexes.x] : ''
OptionalColumn(columns, index) ==
    IF index # 0 THEN ColumnAt(columns, index) ELSE Str(<<>>)

extractRowData(columns, tableHeaderColumns, title) ==
    LET slovo == IndexOf(tableHeaderColumns, wordColumn)
        preklad == IndexOf(tableHeaderColumns, translationColumn)
    IN  IF slovo = 0 \/ preklad = 0 THEN Null
        ELSE [slovo |-> ColumnAt(columns, slovo),
              preklad |-> ColumnAt(columns, preklad),
              vyraz |-> OptionalColumn(columns, IndexOf(tableHeaderColumns, phraseColumn)),
              prekladVyrazu |->
                  OptionalColumn(columns, IndexOf(tableHeaderColumns, phraseTranslationColumn)),
              wordNote |-> OptionalColumn(columns, IndexOf(tableHeaderColumns, wordNoteColumn)),
              partOfSpeech |->
                  OptionalColumn(columns, IndexOf(tableHeaderColumns, partOfSpeechColumn)),
              titleTag |-> Str(formatForTag(title))]

\* if (rowData): extractRowData returned an object and not null.
IsRowData(rowData) == "slovo" \in DOMAIN rowData

StartsWith(s, pat) == MatchAt(s, pat, 1)
EndsWith(s, pat) == MatchAt(s, pat, Len(s) - Len(pat) + 1)

\* line.startsWith('## ') || line.startsWith('### ')
StartsSection(line) ==
    \/ StartsWith(line, <<HASH, HASH, SP>>)
    \/ StartsWith(line, <<HASH, HASH, HASH, SP>>)

\* line.startsWith('|') && line.endsWith('|')
IsTableLine(line) == StartsWith(line, <<PIPE>>) /\ EndsWith(line, <<PIPE>>)

\* The inner loop of the header search: the first of the five lines after
\* line i that includes the word column and the translation column, or 0.
HeaderRowAfter(lines, i) ==
    LET IsHeaderRow(j) == /\ Includes(lines[j], wordColumn)
                          /\ Includes(lines[j], translationColumn)
        last == IF i + 5 < Len(lines) THEN i + 5 ELSE Len(lines)
    IN  First(i + 1, last, IsHeaderRow, 0)

\* The outer loop: the first heading line that has a header row after it, or 0.
TableHeadingLine(lines) ==
    LET HasTable(i) == StartsSection(lines[i]) /\ HeaderRowAfter(lines, i) # 0
    IN  First(1, Len(lines), HasTable, 0)

\* Where the row loop breaks: the first line from "from" on that is no table
\* line and starts with "## " or "### ", or the end of the lines.
TableEnd(lines, from) ==
    LET Breaks(i) == ~IsTableLine(Trim(lines[i])) /\ StartsSection(Trim(lines[i]))
    IN  First(from, Len(lines), Breaks, Len(lines) + 1)

\* One pass of the row loop: the row data pushed for a line, or null when the
\* line is no table line, has fewer than two cells or extractRowData gave null.
RowOf(line, tableHeaderColumns, tableHeader) ==
    LET columns == Columns(Trim(line))
    IN  IF IsTableLine(Trim(line)) /\ Len(columns) >= 2
        THEN extractRowData(columns, tableHeaderColumns, tableHeader)
        ELSE Null

\* The row loop from line "from" to its break: the pushed rows in order, each
\* with the index of its line.
CollectedRows(lines, from, tableHeaderColumns, tableHeader) ==
    LET Pushed(c) == IsRowData(c.rowData)
    IN  SelectSeq([n \in 1..(TableEnd(lines, from) - from) |->
                      [line |-> from + n - 1,
                       rowData |-> RowOf(lines[from + n - 1], tableHeaderColumns,
                                         tableHeader)]],
                  Pushed)

\* analyzeCzechGrammarTable from the read of the active file to the loop over
\* tableData: whether a table was found, the index of its header row, its
\* heading line, the cells of its header row and the collected rows.
analyzeCzechGrammarTable(content) ==
    LET lines == SplitLines(content)
        i == TableHeadingLine(lines)
        j == IF i = 0 THEN 0 ELSE HeaderRowAfter(lines, i)
        tableHeader == IF i = 0 THEN <<>> ELSE lines[i]
        tableHeaderColumns == IF j = 0 THEN <<>> ELSE Columns(lines[j])
    IN  [found |-> j # 0,
         headerLine |-> j,
         tableHeader |-> tableHeader,
         tableHeaderColumns |-> tableHeaderColumns,
         rows |-> IF j = 0 THEN <<>>
                  ELSE CollectedRows(lines, j + 2, tableHeaderColumns, tableHeader)]

\* A table line with the given cells, as a page shows it.
TableLine(cells) ==
    IF Len(cells) = 0 THEN <<PIPE>>
    ELSE <<PIPE, SP>> \o cells[1]
         \o (IF Len(cells) >= 2 THEN <<SP, PIPE, SP>> \o cells[2] ELSE <<>>)
         \o (IF Len(cells) >= 3 THEN <<SP, PIPE, SP>> \o cells[3] ELSE <<>>)
         \o (IF Len(cells) >= 4 THEN <<SP, PIPE, SP>> \o cells[4] ELSE <<>>)
         \o <<SP, PIPE>>

HeaderRow == TableLine(<<wordColumn, translationColumn, wordNoteColumn, partOfSpeechColumn>>)
Rule == <<DASH, DASH, DASH>>
SeparatorRow == TableLine(<<Rule, Rule, Rule, Rule>>)

\* A page: the heading, the header row, the separator and the body lines.
Page(body) == JoinLines(<<BasicVerbs, HeaderRow, SeparatorRow>> \o body)

(***************************************************************************)
(* The remote analysis.  analyzeCzechWordGrammar takes the next server URL *)
(* and sends its request; the call is in flight until it returns.  The     *)
(* queue of queueWordAnalysis is drained by processQueue.                  *)
(***************************************************************************)
\* Stands for the number NaN, which no index of the list equals.
NaN == -1

Server1 == Str(<<"https://server1.com">>)
Server2 == Str(<<"https://server2.com">>)

\* getNextServerURL without the advance of the index.
getSameServerURL(urls, index) ==
    [url |-> IF index \in 0..(Len(urls) - 1) THEN urls[index + 1] ELSE Undefined,
     index |-> index]

\* getNextServerURL: the URL at the index, undefined when the list has no such
\* element, and the index advanced modulo the length; x % 0 and NaN % x are NaN.
getNextServerURL(urls, index) ==
    [url |-> IF index \in 0..(Len(urls) - 1) THEN urls[index + 1] ELSE Undefined,
     index |-> IF index = NaN \/ Len(urls) = 0 THEN NaN ELSE (index + 1) % Len(urls)]

\* analyzeCzechWordGrammar up to its first await: the URL is taken and the
\* request goes out.  last tells whether an analysis ended since the last sleep.
Analyze(by, request, last) ==
    LET next == getNextServerURL(serverURLs, currentServerURLIndex)
        call == [k |-> calls + 1, by |-> by, request |-> request, url |-> next.url,
                 urls |-> serverURLs, attempt |-> 1, slept |-> last # "ended"]
    IN  /\ currentServerURLIndex' = next.index
        /\ calls' = calls + 1
        /\ inFlight' = inFlight \cup {call}
        /\ UNCHANGED <<serverURLs, urlEdits>>

\* The call of analyzeCzechWordGrammar the command or loop named by awaits.
CallOf(by, request) == CHOOSE call \in inFlight : call.by = by /\ call.request = request


\* analyzeCzechWordGrammar returns to the one that awaits it.
AnalysisEnds(by, request) ==
    /\ inFlight' = inFlight \ {CallOf(by, request)}
    /\ lastAnalysis' = "ended"

Without(s, i) == SubSeq(s, 1, i - 1) \o SubSeq(s, i + 1, Len(s))

\* The guard of processQueue that is always passed.
guardAlwaysPasses(processing) == TRUE

\* The guard of processQueue: if (this.isProcessingQueue) return.
guardPasses(processing) == ~processing

\* The while test of processQueue for the queue q, by the loop at position i
\* of loops, or by a processQueue that just passed its guard when i is 0:
\* the next request is shifted and its analysis called, or the loop ends.
WhileTest(q, i, owner, last) ==
    IF q # <<>>
    THEN /\ requestQueue' = Tail(q)
         /\ taken' = Append(taken, Head(q))
         /\ isProcessingQueue' = IF i = 0 THEN TRUE ELSE isProcessingQueue
         /\ loops' = LET loop == [owner |-> owner, pc |-> "analyze", request |-> Head(q),
                                  grammar |-> NoGrammar]
                     IN  IF i = 0 THEN Append(loops, loop) ELSE [loops EXCEPT ![i] = loop]
         /\ Analyze("queue", Head(q), last)
    ELSE /\ requestQueue' = q
         /\ taken' = taken
         /\ isProcessingQueue' = FALSE
         /\ loops' = IF i = 0 THEN loops ELSE Without(loops, i)
         /\ UNCHANGED <<urlVars, inFlight>>

\* processQueue from its first line, called by owner.
processQueue(q, owner, last) ==
    IF guardPasses(isProcessingQueue)
    THEN WhileTest(q, 0, owner, last)
    ELSE /\ requestQueue' = q
         /\ UNCHANGED <<isProcessingQueue, loops, taken, urlVars, inFlight>>

(***************************************************************************)
(* The table batch: analyzeCzechGrammarTable walks the rows and calls      *)
(* processWordFromTable for each, which analyses the word when the remote  *)
(* analysis is on and then writes the note.                                *)
(***************************************************************************)
MaxRows == 2

BatchColumns == Columns(HeaderRow)

JitLine == TableLine(<<Jit, ToGo>>)
DumLine ==
    TableLine(<<Dum, <<"house">>, <<"[", "n", "]", "(", "w", "/", "dum", ".md", ")">>,
                <<"n", "o", "u", "n">>>>)

\* The pages of the batch: a table of one row line or more.
BatchPages == {Page(body) : body \in UNION {[1..n -> {JitLine, DumLine}] : n \in 1..MaxRows}}

\* The rows of the pages, as extractRowData builds them.
BatchRows ==
    {extractRowData(Columns(line), BatchColumns, BasicVerbs) : line \in {JitLine, DumLine}}

BatchPaths == {determineFilePath(wordData, BatchColumns) : wordData \in BatchRows}

\* The vaults before the batch: the note of a row is missing, or it is the
\* note an earlier run without analysis created for the row.
BatchVaults ==
    {[filePath \in BatchPaths |->
         IF filePath \in present
         THEN createNoteContent(CHOOSE wordData \in BatchRows :
                                    determineFilePath(wordData, BatchColumns) = filePath,
                                NoGrammar, BasicVerbs, flashcardsNoteSection)
         ELSE NoFile] : present \in SUBSET BatchPaths}

BatchInit ==
    /\ useRemoteGrammarAnalysis \in BOOLEAN
    /\ batchPc = "idle"
    /\ activeFile \in BatchPages
    /\ table = NoTable
    /\ rowIndex = 0
    /\ rowGrammar = NoGrammar
    /\ processedWords = 0
    /\ batchLog = <<>>
    /\ vault \in BatchVaults
    /\ history = <<>>
    /\ idleMerge /\ idleReconcile /\ idleSection /\ idleCall
    /\ idleRetry /\ idleNet

currentRow == tableData[rowIndex]

currentPath == determineFilePath(currentRow, pageColumns)

Logged(outcome, after) ==
    [row |-> rowIndex, outcome |-> outcome, path |-> currentPath,
     before |-> vault[currentPath], after |-> after]

\* analyzeCzechGrammarTable up to its loop: the active file is read and the
\* rows of its table are collected; without a table the command ends.
CollectRows ==
    /\ batchPc = "idle"
    /\ table' = analyzeCzechGrammarTable(activeFile)
    /\ batchPc' = IF table'.found THEN "loop" ELSE "done"
    /\ rowIndex' = 1
    /\ processedWords' = 0
    /\ UNCHANGED <<useRemoteGrammarAnalysis, activeFile, rowGrammar, batchLog, noteVars,
                   mergeVars, reconcileVars, sectionVars, callVars, retryVars, netVars>>

\* processWordFromTable is entered for the next row.
BeginRow ==
    /\ batchPc = "loop"
    /\ rowIndex <= Len(tableData)
    /\ rowGrammar' = NoGrammar
    /\ IF useRemoteGrammarAnalysis
       THEN /\ batchPc' = "analyze"
            /\ Analyze("batch", 0, lastAnalysis)
       ELSE /\ batchPc' = "write"
            /\ UNCHANGED <<urlVars, inFlight>>
    /\ UNCHANGED <<useRemoteGrammarAnalysis, activeFile, table, rowIndex, processedWords, batchLog,
                   noteVars, mergeVars, reconcileVars, sectionVars, callVars, retryVars,
                   lastAnalysis, queueVars, pageVars>>

\* analyzeCzechWordGrammar returned null: processWordFromTable returns, the
\* loop counts the row and goes on.
AnalysisFails ==
    /\ batchPc = "analyze"
    /\ AnalysisEnds("batch", 0)
    /\ batchLog' = Append(batchLog, Logged("analysis failed", vault[currentPath]))
    /\ processedWords' = processedWords + 1
    /\ rowIndex' = rowIndex + 1
    /\ batchPc' = "loop"
    /\ UNCHANGED <<useRemoteGrammarAnalysis, activeFile, table, rowGrammar, noteVars, mergeVars,
                   reconcileVars, sectionVars, callVars, retryVars, urlVars, queueVars,
                   pageVars>>

\* analyzeCzechWordGrammar returned an analysis.
AnalysisReturns ==
    /\ batchPc = "analyze"
    /\ AnalysisEnds("batch", 0)
    /\ rowGrammar' \in {VerbGrammar, NounGrammar}
    /\ batchPc' = "write"
    /\ UNCHANGED <<useRemoteGrammarAnalysis, activeFile, table, rowIndex, processedWords, batchLog,
                   noteVars, mergeVars, reconcileVars, sectionVars, callVars, retryVars,
                   urlVars, queueVars, pageVars>>

\* createOrUpdateWordNote for the row; a call inside it may throw.
WriteNote ==
    /\ batchPc = "write"
    /\ \E thrown \in BOOLEAN :
           /\ vault' = createOrUpdateWordNote(vault, currentPath, currentRow, rowGrammar,
                                               useRemoteGrammarAnalysis, pageHeader, thrown)
           /\ batchLog' = Append(batchLog,
                                 Logged(IF thrown THEN "write failed" ELSE "written",
                                        vault'[currentPath]))
    /\ processedWords' = processedWords + 1
    /\ rowIndex' = rowIndex + 1
    /\ batchPc' = "loop"
    /\ UNCHANGED <<useRemoteGrammarAnalysis, activeFile, table, rowGrammar, history, mergeVars,
                   reconcileVars, sectionVars, callVars, retryVars, netVars>>

\* The loop is over: processQueue is called and awaited, then the count is
\* shown.  The batch goes on at once unless its call became a draining loop.
FinishBatch ==
    /\ batchPc = "loop"
    /\ rowIndex > Len(tableData)
    /\ processQueue(requestQueue, "batch", lastAnalysis)
    /\ batchPc' = IF loops' = loops THEN "done" ELSE "queue"
    /\ UNCHANGED <<useRemoteGrammarAnalysis, activeFile, table, rowIndex, rowGrammar, processedWords,
                   batchLog, noteVars, mergeVars, reconcileVars, sectionVars, callVars,
                   retryVars, lastAnalysis, queued, settled, pageVars>>

BatchNext ==
    \/ CollectRows
    \/ BeginRow
    \/ AnalysisFails
    \/ AnalysisReturns
    \/ WriteNote
    \/ FinishBatch

BatchSpec == BatchInit /\ [][BatchNext]_vars

\* C10: a row whose analysis or whose write failed leaves the note of its
\* word as it was, missing or unchanged, and the batch still handles every
\* row of the table, in order.
C10_FailedRowLeavesNote ==
    /\ \A i \in 1..Len(batchLog) :
           /\ batchLog[i].row = i
           /\ batchLog[i].outcome # "written" => batchLog[i].after = batchLog[i].before
    /\ batchPc = "done" => Len(batchLog) = Len(tableData)

\* A batch that is over, whose first row failed in the write and whose second
\* row was written.
C10_Witness ==
    /\ batchPc = "done"
    /\ Len(batchLog) = 2
    /\ batchLog[1].outcome = "write failed"
    /\ batchLog[2].outcome = "written"
    /\ batchLog[2].after # batchLog[2].before

\* C11: a row whose analysis failed is still reconciled without grammar: after
\* the row is handled its note holds what createOrUpdateWordNote writes for a
\* null analysis.
C11_FailedAnalysisStillWrites ==
    \A i \in 1..Len(batchLog) :
        batchLog[i].outcome = "analysis failed" =>
            /\ batchLog[i].after # NoFile
            /\ batchLog[i].after =
                   createOrUpdateWordNote([p \in {batchLog[i].path} |-> batchLog[i].before],
                                          batchLog[i].path, tableData[batchLog[i].row],
                                          NoGrammar, TRUE, pageHeader, FALSE)[batchLog[i].path]

\* The rows of the batch whose note was created or updated.
WrittenRows == {i \in 1..Len(batchLog) : batchLog[i].outcome = "written"}

\* C25: when the table command ends, the number it reports as processed is
\* the number of rows whose note was created or updated; a row whose analysis
\* or whose write failed is not counted.
C25_ProcessedCountsWrittenNotes ==
    (batchPc = "done" /\ table.found) => processedWords = Cardinality(WrittenRows)

(***************************************************************************)
(* The collection of the rows on its own, over pages whose table is        *)
(* followed by other lines.                                                *)
(***************************************************************************)
MaxLines == 3

\* A row line whose headword cell is empty.
NoHeadwordLine ==
    TableLine(<<<<>>, <<"go">>, <<"[", "n", "]", "(", "w", "/", "x", ".md", ")">>>>)

\* A second table further down the page.
LaterTable == JoinLines(<<HeaderRow, SeparatorRow, DumLine>>)

BodyLines ==
    {JitLine, DumLine, NoHeadwordLine, <<"my", SP, "note">>, <<>>, NotesHeading, LaterTable}

TablePages == {Page(body) : body \in UNION {[1..n -> BodyLines] : n \in 1..MaxLines}}

TableInit ==
    /\ useRemoteGrammarAnalysis = FALSE
    /\ batchPc = "idle"
    /\ activeFile \in TablePages
    /\ table = NoTable
    /\ rowIndex = 0
    /\ rowGrammar = NoGrammar
    /\ processedWords = 0
    /\ batchLog = <<>>
    /\ vault = [filePath \in BatchPaths |-> NoFile]
    /\ history = <<>>
    /\ idleMerge /\ idleReconcile /\ idleSection /\ idleCall
    /\ idleRetry /\ idleNet

TableNext == CollectRows

TableSpec == TableInit /\ [][TableNext]_vars

\* The cells of a table line between its outer bars, empty cells included.
RawCells(line) ==
    LET parts == SplitCells(Trim(line))
    IN  [c \in 1..(Len(parts) - 2) |-> Trim(parts[c + 1])]

\* The cell of a line under the word column of the header row; empty when the
\* line has no such cell.
HeadwordCell(line, headerRow) ==
    LET c == IndexOf(RawCells(headerRow), wordColumn)
    IN  IF c # 0 /\ c <= Len(RawCells(line)) THEN RawCells(line)[c] ELSE <<>>

\* C12: every collected row comes from a line whose headword cell is not
\* empty, and its slovo is the text of that cell (never undefined, never the
\* text of another column).
C12_RowsHaveTheirHeadword ==
    batchPc # "idle" =>
        LET lines == SplitLines(activeFile)
        IN  \A r \in 1..Len(table.rows) :
                LET cell == HeadwordCell(lines[table.rows[r].line], lines[table.headerLine])
                IN  cell # <<>> /\ table.rows[r].rowData.slovo = Str(cell)

\* C18: every collected row comes from the unbroken run of table lines that
\* starts right after the separator: no line between the separator and the
\* row's line is anything but a table line.
C18_RowsFromContiguousRun ==
    batchPc # "idle" =>
        LET lines == SplitLines(activeFile)
        IN  \A r \in 1..Len(table.rows) :
                \A k \in (table.headerLine + 2)..table.rows[r].line :
                    IsTableLine(Trim(lines[k]))

\* C13: in the frontmatter of a note the keys of a verb (verbConjugationGroup,
\* isIrregularVerb) are present only when partOfSpeech is "Sloveso", the keys
\* of a noun (nounRod, nounRodFull) only when it is "Podstatne jmeno" (with its
\* diacritics), and never both groups, after every sequence of reconciles.
C13_GrammarKeysFitPartOfSpeech ==
    note # NoFile =>
        LET Has(key) == YamlNode(note, <<key>>).present
            verbKeys == Has("verbConjugationGroup") \/ Has("isIrregularVerb")
            nounKeys == Has("nounRod") \/ Has("nounRodFull")
            partOfSpeech == YamlNode(note, <<"partOfSpeech">>).scalar
        IN  /\ verbKeys => partOfSpeech = Sloveso
            /\ nounKeys => partOfSpeech = PodstatneJmeno
            /\ ~(verbKeys /\ nounKeys)

(***************************************************************************)
(* getPartOfSpeech on its own, for a row without a usable analysis.        *)
(***************************************************************************)
\* An analysis that came back without partOfSpeechType.
GrammarNoType == [VerbGrammar EXCEPT !.partOfSpeechType = Undefined]

\* Every keyword of the two tables, bare and inside other text.
KeywordHints ==
    UNION {{partOfSpeechMap[i].key, <<"x", SP>> \o partOfSpeechMap[i].key \o <<"y">>} :
               i \in 1..Len(partOfSpeechMap)}
    \cup UNION {{additionalChecks[i].key, <<"x", SP>> \o additionalChecks[i].key \o <<"y">>} :
                    i \in 1..Len(additionalChecks)}

\* The ten category names.
Categories ==
    {Sloveso, PodstatneJmeno, PridavneJmeno, Prislovce, Cislovka, Predlozka, Zajmeno,
     Spojka, Castice, Citoslovce}

\* The cells a table can hold in its part-of-speech column: none, empty, a
\* keyword, a category name, a word in capitals, two keywords, no keyword.
Hints ==
    {Undefined, Str(<<>>)}
    \cup {Str(hint) : hint \in KeywordHints}
    \cup {Str(category) : category \in Categories}
    \cup {Str(<<"V", "E", "R", "B">>),
          Str(<<"n", "o", "u", "n", SP, "v", "e", "r", "b">>),
          Str(<<"U0447", "U0430", "U0441", "U0442", "U0438", "U0446", "U0430">>),
          Str(<<"x">>)}

PosInit ==
    /\ callPc = "ready"
    /\ callArgs \in [wordData : {[partOfSpeech |-> hint] : hint \in Hints},
                     czechWordGrammar : {NoGrammar, GrammarNoType}]
    /\ callResult = <<>>
    /\ idleMerge /\ idleReconcile /\ idleSection /\ idleNote /\ idleBatch
    /\ idleRetry /\ idleNet

GetPartOfSpeech ==
    /\ callPc = "ready"
    /\ callResult' = getPartOfSpeech(callArgs.wordData, callArgs.czechWordGrammar)
    /\ callPc' = "returned"
    /\ UNCHANGED <<callArgs, mergeVars, reconcileVars, sectionVars, noteVars, batchVars,
                   retryVars, netVars>>

PosNext == GetPartOfSpeech

PosSpec == PosInit /\ [][PosNext]_vars

\* C26: with no analysis, a hint that is one of the ten category names
\* resolves to that category.
C26_CategoryHintIsStable ==
    (/\ callPc = "returned"
     /\ callArgs.czechWordGrammar = NoGrammar
     /\ callArgs.wordData.partOfSpeech \in {Str(category) : category \in Categories})
        => callResult = callArgs.wordData.partOfSpeech.v

\* C14: without a part of speech from the analysis, getPartOfSpeech returns
\* one of the ten category names or NOT_DEFINED, and NOT_DEFINED exactly when
\* no keyword of the tables occurs in the lower-cased hint.
C14_CategoryOrNotDefined ==
    callPc = "returned" =>
        LET hint == callArgs.wordData.partOfSpeech
            wordType == toLowerCase(IF hint = Undefined THEN <<>> ELSE hint.v)
            Occurs(checks) == \E i \in 1..Len(checks) : Includes(wordType, checks[i].key)
            occurs == Occurs(partOfSpeechMap) \/ Occurs(additionalChecks)
        IN  /\ callResult \in Categories \cup {NOT_DEFINED}
            /\ callResult = NOT_DEFINED <=> ~occurs

(***************************************************************************)
(* createFlashcardDecks on its own.                                        *)
(***************************************************************************)
\* The analyses: none, a verb, a noun, and analyses with a field missing.
DeckGrammars ==
    {NoGrammar, GrammarNoType, VerbGrammar, NounGrammar,
     [VerbGrammar EXCEPT !.verbConjugationGroup = Undefined],
     [VerbGrammar EXCEPT !.verbVzor = Undefined],
     [NounGrammar EXCEPT !.nounVzor = Undefined],
     [NounGrammar EXCEPT !.nounRod = Undefined],
     [NoGrammar EXCEPT !.isNull = FALSE, !.partOfSpeechType = Str(PridavneJmeno)]}

\* The rows: the part-of-speech cell is empty, a keyword or no keyword.
DeckRows ==
    {Row(Jit, ToGo, <<>>, <<>>, <<>>, hint, BasicVerbs) :
         hint \in {<<>>, <<"n", "o", "u", "n">>, <<"v", "e", "r", "b">>, <<"x">>}}

DecksInit ==
    /\ callPc = "ready"
    /\ callArgs \in [wordData : DeckRows, czechWordGrammar : DeckGrammars,
                     type : {"czwords", "czphrase"}]
    /\ callResult = <<>>
    /\ idleMerge /\ idleReconcile /\ idleSection /\ idleNote /\ idleBatch
    /\ idleRetry /\ idleNet

CreateFlashcardDecks ==
    /\ callPc = "ready"
    /\ callResult' = createFlashcardDecks(callArgs.wordData, callArgs.czechWordGrammar,
                                          callArgs.type)
    /\ callPc' = "returned"
    /\ UNCHANGED <<callArgs, mergeVars, reconcileVars, sectionVars, noteVars, batchVars,
                   retryVars, netVars>>

DecksNext == CreateFlashcardDecks

DecksSpec == DecksInit /\ [][DecksNext]_vars

\* C15: the list is, in this order, the theme tag, the part-of-speech tag when
\* the part of speech is not NOT_DEFINED, the pattern tag when a pattern is
\* known, the verb-group tag when the group is known, the noun-gender tag when
\* the gender is known, and the "all" tag; a noun with gender and pattern and
\* no verb group has exactly five tags.
C15_DeckList ==
    callPc = "returned" =>
        LET wordData == callArgs.wordData
            czechWordGrammar == callArgs.czechWordGrammar
            basePath == <<HASH, "flashcards/", callArgs.type>>
            partOfSpeech == getPartOfSpeech(wordData, czechWordGrammar)
            pattern == IF Truthy(czechWordGrammar.verbVzor) THEN czechWordGrammar.verbVzor
                       ELSE czechWordGrammar.nounVzor
            Tag(present, tag) == IF present THEN <<tag>> ELSE <<>>
            expected ==
                <<basePath \o <<"/theme/">> \o formatForTag(wordData.titleTag.v)>>
                \o Tag(partOfSpeech # NOT_DEFINED,
                       basePath \o <<"/">> \o formatForTag(partOfSpeech))
                \o Tag(Truthy(pattern),
                       basePath
                       \o (IF partOfSpeech = Sloveso THEN <<"/sloveso_vzor/">>
                           ELSE <<"/podstatne_jmeno_vzor/">>)
                       \o ToStr(pattern))
                \o Tag(Truthy(czechWordGrammar.verbConjugationGroup),
                       basePath \o <<"/verbgroup/">>
                       \o ToStr(czechWordGrammar.verbConjugationGroup))
                \o Tag(Truthy(czechWordGrammar.nounRod),
                       basePath \o <<"/nounrod/">> \o ToStr(czechWordGrammar.nounRod))
                \o <<basePath \o <<"/all">>>>
        IN  /\ callResult = expected
            /\ czechWordGrammar = NounGrammar => Len(callResult) = 5

(***************************************************************************)
(* formatForTag on its own.                                                *)
(***************************************************************************)
CislaABarvy ==
    <<"U010C", "U00ED", "s", "l", "a", SP, "a", SP, "b", "a", "r", "v", "y">>

\* The titles: a text, bare or after heading marks or white space, and bare or
\* before punctuation or white space.
Titles ==
    {before \o text \o after :
         before \in {<<>>, <<HASH, SP>>, <<HASH, HASH, SP>>, <<SP>>},
         text \in {CislaABarvy, PodstatneJmeno, <<"Basic", SP, "Verbs">>, <<"a">>, <<>>},
         after \in {<<>>, <<"!">>, <<SP>>, <<"!", "!">>, <<SP, DASH, SP, "b">>}}

SlugInit ==
    /\ callPc = "ready"
    /\ callArgs \in Titles
    /\ callResult = <<>>
    /\ idleMerge /\ idleReconcile /\ idleSection /\ idleNote /\ idleBatch
    /\ idleRetry /\ idleNet

FormatForTag ==
    /\ callPc = "ready"
    /\ callResult' = formatForTag(callArgs)
    /\ callPc' = "returned"
    /\ UNCHANGED <<callArgs, mergeVars, reconcileVars, sectionVars, noteVars, batchVars,
                   retryVars, netVars>>

SlugNext == FormatForTag

SlugSpec == SlugInit /\ [][SlugNext]_vars

\* C16 as the spec's examples give it: the slug of "Cisla a barvy!" (written
\* with C-caron and i-acute) is "cisla_a_barvy" and the slug of "Podstatne
\* jmeno" (written with e-acute twice) is "podstatne_jmeno", in ASCII letters.
C16_SlugInAscii ==
    callPc = "returned" =>
        /\ callArgs = CislaABarvy \o <<"!">> =>
               callResult = <<"c", "i", "s", "l", "a", "_", "a", "_", "b", "a", "r", "v", "y">>
        /\ callArgs = PodstatneJmeno =>
               callResult = <<"p", "o", "d", "s", "t", "a", "t", "n", "e", "_",
                              "j", "m", "e", "n", "o">>

\* C16, amended: the slug keeps the letters with their diacritics, in lower
\* case: "Cisla a barvy!" gives c-caron, i-acute, "sla_a_barvy", and
\* "Podstatne jmeno" gives "podstatn", e-acute, "_jm", e-acute, "no".
C16_SlugKeepsDiacritics ==
    callPc = "returned" =>
        /\ callArgs = CislaABarvy \o <<"!">> =>
               callResult = <<"U010D", "U00ED", "s", "l", "a", "_", "a", "_",
                              "b", "a", "r", "v", "y">>
        /\ callArgs = PodstatneJmeno =>
               callResult = <<"p", "o", "d", "s", "t", "a", "t", "n", "U00E9", "_",
                              "j", "m", "U00E9", "n", "o">>

\* formatForTag returned for the title "Cisla a barvy!".
C16_Witness ==
    /\ callPc = "returned"
    /\ callArgs = CislaABarvy \o <<"!">>
    /\ Len(callResult) = 13

(***************************************************************************)
(* determineFilePath on its own.                                           *)
(***************************************************************************)
\* The note-link cells: a link "[text](path)" with and without text, with a
\* path of no, one or two folders or in the root, bare or inside other text,
\* and cells that are no link.
NoteLinks ==
    {before \o <<"[">> \o text \o <<"]", "(">> \o path \o <<")">> \o after :
         text \in {<<>>, <<"n">>},
         path \in {<<"dum", ".md">>, <<"w", "/", "dum", ".md">>,
                   <<"a", "/", "b", "/", "dum", ".md">>, <<"/", "dum", ".md">>},
         before \in {<<>>, <<"x", SP>>},
         after \in {<<>>, <<SP, "y">>}}
    \cup {<<>>, <<"my", SP, "note">>, <<"[", "n", "]">>, <<"(", "w", "/", "dum", ".md", ")">>}

PathInit ==
    /\ callPc = "ready"
    /\ callArgs \in
           [wordData : {Row(Jit, ToGo, <<>>, <<>>, noteLink, <<>>, BasicVerbs) :
                            noteLink \in NoteLinks}
                       \cup {[Row(Jit, ToGo, <<>>, <<>>, <<>>, <<>>, BasicVerbs)
                                 EXCEPT !.wordNote = Undefined]},
            tableHeaderColumns : {<<wordColumn, translationColumn>>,
                                  <<wordColumn, translationColumn, wordNoteColumn>>}]
    /\ callResult = <<>>
    /\ idleMerge /\ idleReconcile /\ idleSection /\ idleNote /\ idleBatch
    /\ idleRetry /\ idleNet

DetermineFilePath ==
    /\ callPc = "ready"
    /\ callResult' = determineFilePath(callArgs.wordData, callArgs.tableHeaderColumns)
    /\ callPc' = "returned"
    /\ UNCHANGED <<callArgs, mergeVars, reconcileVars, sectionVars, noteVars, batchVars,
                   retryVars, netVars>>

PathNext == DetermineFilePath

PathSpec == PathInit /\ [][PathNext]_vars

\* C17: when the header has the note-link column and the cell of the row
\* parses as "[text](path)", the result is path, with or without a folder in
\* it; in every other case it is newWordsFolder/headword.md.
C17_LinkPathOrDefault ==
    callPc = "returned" =>
        LET wordData == callArgs.wordData
            hasColumn == \E c \in 1..Len(callArgs.tableHeaderColumns) :
                             callArgs.tableHeaderColumns[c] = wordNoteColumn
            parses == wordData.wordNote # Undefined /\ LinkPath(wordData.wordNote.v) # NoMatch
        IN  callResult = IF hasColumn /\ parses THEN LinkPath(wordData.wordNote.v)
                         ELSE newWordsFolder \o <<"/">> \o wordData.slovo.v \o <<".md">>

(***************************************************************************)
(* The frontmatter codec on its own: a mapping is written by               *)
(* updateFrontmatterContent into a note without frontmatter and the block  *)
(* is read back by parseExistingFrontmatter, as the next reconcile does.   *)
(***************************************************************************)
MaxPairs == 2

\* The pairs createFrontmatter can put into a mapping: strings (empty, plain,
\* with a double quote, with a backslash), the number of verbConjugationGroup
\* and the boolean of isIrregularVerb.
CodecPairs ==
    [k : {<<"translation">>, <<"phrase">>},
     val : {Str(<<>>), Str(<<"go">>), Str(Quoted), Str(<<"a", BSL, "b">>)}]
    \cup [k : {<<"verbConjugationGroup">>}, val : {Num(<<"1">>)}]
    \cup [k : {<<"isIrregularVerb">>}, val : {Bool(<<"false">>), Bool(<<"true">>)}]

CodecMappings ==
    UNION {{m \in [1..n -> CodecPairs] : \A i, j \in 1..n : m[i].k = m[j].k => i = j} :
               n \in 0..MaxPairs}

CodecInit ==
    /\ callPc = "ready"
    /\ callArgs \in CodecMappings
    /\ callResult = <<>>
    /\ idleMerge /\ idleReconcile /\ idleSection /\ idleNote /\ idleBatch
    /\ idleRetry /\ idleNet

\* updateFrontmatterContent writes the mapping; the block between the two
\* "---" lines is what updateFrontmatterContent hands to
\* parseExistingFrontmatter on the next run.
WriteAndParse ==
    /\ callPc = "ready"
    /\ LET written == updateFrontmatterContent(<<HASH, SP, "x">>, callArgs)
       IN  callResult' =
               parseExistingFrontmatter(
                   SubSeq(written, Len(FrontmatterOpen) + 1, FrontmatterEnd(written) - 1))
    /\ callPc' = "returned"
    /\ UNCHANGED <<callArgs, mergeVars, reconcileVars, sectionVars, noteVars, batchVars,
                   retryVars, netVars>>

CodecNext == WriteAndParse

CodecSpec == CodecInit /\ [][CodecNext]_vars

\* C19: the mapping parsed from the written frontmatter equals the mapping
\* that was written: the same keys, each with the same value of the same type.
C19_RoundTrip ==
    callPc = "returned" =>
        /\ Keys(callResult) = Keys(callArgs)
        /\ \A key \in Keys(callArgs) : Get(callResult, key) = Get(callArgs, key)

(***************************************************************************)
(* retryRequest on its own, inside analyzeCzechWordGrammar: fn is the      *)
(* request, which resolves with a response or rejects with an error; each  *)
(* error is named by the number of the attempt that threw it.              *)
(***************************************************************************)
MaxRetries == 3

\* retryRequest is called with one retry (src/unnamed/part_000) or three
\* (src/main.ts) and a delay of 10 seconds; other values are drawn as well.
RetryArgs == [retries : 0..MaxRetries, delay : {10000, 250}]

RetryEvent(e, n) == [e |-> e, n |-> n]

\* The number of the calls of fn so far.
Attempts == Cardinality({i \in 1..Len(retryLog) : retryLog[i].e = "fn"})

\* retries > 0
mayRetry(n) == n > 0

\* The delay the recursive call is given.
sameDelay(ms) == ms

nextDelay(ms) == ms * 2

\* What analyzeCzechWordGrammar makes of the outcome of retryRequest: the
\* analysis for a response of status 200, null for another status and for
\* every error, which its catch block swallows.
analysisOf(outcome) ==
    IF outcome.kind = "response" /\ outcome.status = 200
    THEN [threw |-> FALSE, value |-> VerbGrammar]
    ELSE [threw |-> FALSE, value |-> Null]

RetryInit ==
    /\ retryPc = "ready"
    /\ retryArgs \in RetryArgs
    /\ retries = retryArgs.retries
    /\ delay = retryArgs.delay
    /\ retryLog = <<>>
    /\ retryOutcome = <<>>
    /\ analysisResult = <<>>
    /\ idleMerge /\ idleReconcile /\ idleSection /\ idleNote /\ idleBatch /\ idleCall
    /\ idleNet

\* analyzeCzechWordGrammar calls retryRequest, which calls fn and awaits it.
CallRetryRequest ==
    /\ retryPc = "ready"
    /\ retryLog' = <<RetryEvent("fn", 1)>>
    /\ retryPc' = "fn"
    /\ UNCHANGED <<retryArgs, retries, delay, retryOutcome, analysisResult, mergeVars,
                   reconcileVars, sectionVars, noteVars, batchVars, callVars, netVars>>

\* fn resolves: retryRequest returns the response, and so does every
\* retryRequest that called it.
FnResolves ==
    /\ retryPc = "fn"
    /\ \E status \in {200, 204} :
           retryOutcome' = [kind |-> "response", status |-> status, error |-> 0]
    /\ retryLog' = Append(retryLog, RetryEvent("ok", Attempts))
    /\ retryPc' = "settled"
    /\ UNCHANGED <<retryArgs, retries, delay, analysisResult, mergeVars, reconcileVars,
                   sectionVars, noteVars, batchVars, callVars, netVars>>

\* fn rejects: with retries left the timer is set, without the error is thrown.
FnRejects ==
    /\ retryPc = "fn"
    /\ retryLog' = Append(retryLog, RetryEvent("error", Attempts))
    /\ IF mayRetry(retries)
       THEN /\ retryPc' = "timer"
            /\ UNCHANGED retryOutcome
       ELSE /\ retryPc' = "settled"
            /\ retryOutcome' = [kind |-> "error", status |-> 0, error |-> Attempts]
    /\ UNCHANGED <<retryArgs, retries, delay, analysisResult, mergeVars, reconcileVars,
                   sectionVars, noteVars, batchVars, callVars, netVars>>

\* The timer fires after delay: retryRequest calls itself with one retry less
\* and twice the delay, and the inner call calls fn.
TimerFires ==
    /\ retryPc = "timer"
    /\ retryLog' = retryLog \o <<RetryEvent("wait", delay), RetryEvent("fn", Attempts + 1)>>
    /\ retries' = retries - 1
    /\ delay' = nextDelay(delay)
    /\ retryPc' = "fn"
    /\ UNCHANGED <<retryArgs, retryOutcome, analysisResult, mergeVars, reconcileVars,
                   sectionVars, noteVars, batchVars, callVars, netVars>>

\* analyzeCzechWordGrammar goes on after its await and returns.
AnalysisSettles ==
    /\ retryPc = "settled"
    /\ analysisResult' = analysisOf(retryOutcome)
    /\ retryPc' = "returned"
    /\ UNCHANGED <<retryArgs, retries, delay, retryLog, retryOutcome, mergeVars,
                   reconcileVars, sectionVars, noteVars, batchVars, callVars, netVars>>

RetryNext ==
    \/ CallRetryRequest
    \/ FnResolves
    \/ FnRejects
    \/ TimerFires
    \/ AnalysisSettles

RetrySpec == RetryInit /\ [][RetryNext]_vars

\* Every call of fn terminates and every timer fires.
RetryFairSpec == RetrySpec /\ WF_vars(RetryNext)

\* The waits of the log, oldest first.
Waits == SelectSeq(retryLog, LAMBDA ev : ev.e = "wait")

RetrySafe ==
    /\ Attempts <= retryArgs.retries + 1
    /\ \A i \in 1..Len(retryLog) : retryLog[i].e = "ok" => i = Len(retryLog)
    /\ \A i \in 2..Len(retryLog) :
           retryLog[i].e = "fn" => retryLog[i - 1].e = "wait" /\ retryLog[i - 2].e = "error"
    /\ \A k \in 1..Len(Waits) : Waits[k].n = retryArgs.delay * 2 ^ (k - 1)
    /\ Attempts = Len(Waits) + (IF retryPc = "ready" THEN 0 ELSE 1)
    /\ (retryOutcome # <<>> /\ retryOutcome.kind = "error")
           => /\ Attempts = retryArgs.retries + 1
              /\ retryOutcome.error = Attempts
              /\ retryLog[Len(retryLog)] = RetryEvent("error", Attempts)
    /\ retryPc = "returned"
           => /\ ~analysisResult.threw
              /\ retryOutcome.kind = "error" => analysisResult.value = Null

\* C23: retryRequest calls fn at most retries + 1 times and not again after a
\* success, waits delay * 2^(k-1) before the k-th retry, throws the error of
\* the last attempt once all have failed, and ends; analyzeCzechWordGrammar
\* then returns null instead of throwing.
C23_BoundedBackoffRetry == []RetrySafe /\ <>(retryPc = "returned")

\* Three retries were used up after four failed attempts and the analysis is null.
C23_Witness ==
    /\ retryPc = "returned"
    /\ retryArgs.retries = 3
    /\ Attempts = 4
    /\ Len(Waits) = 3
    /\ retryOutcome.kind = "error"
    /\ analysisResult.value = Null

(***************************************************************************)
(* The commands together: the table command, the current-page command on   *)
(* the note of a word, requests queued with queueWordAnalysis, and edits   *)
(* of the server list in the settings tab, in any interleaving.  A step is *)
(* what runs between two awaits.                                           *)
(***************************************************************************)
MaxQueued == 2
MaxNetQueued == 1
MaxEdits == 1

URLLists == {<<>>, <<Server1>>, <<Server1, Server2>>}

\* The state of the queue, of the calls and of the current-page command when
\* the plugin is loaded.
startQueue ==
    /\ requestQueue = <<>>
    /\ isProcessingQueue = FALSE
    /\ loops = <<>>
    /\ queued = 0
    /\ taken = <<>>
    /\ settled = {}

startCalls ==
    /\ currentServerURLIndex = 0
    /\ calls = 0
    /\ urlEdits = 0
    /\ inFlight = {}
    /\ lastAnalysis = "none"

startPage ==
    /\ pagePc = "idle"
    /\ pageFrontmatter = <<>>
    /\ pageGrammar = NoGrammar

NetPage == Page(<<JitLine, DumLine>>)

\* The row that is queued, and the note the current-page command runs on.
JitRow == extractRowData(Columns(JitLine), BatchColumns, BasicVerbs)

\* The table command on a page of two rows, the remote analysis on, two
\* servers configured and no note in the vault yet.
NetInit ==
    /\ useRemoteGrammarAnalysis = TRUE
    /\ batchPc = "idle"
    /\ activeFile = NetPage
    /\ table = NoTable
    /\ rowIndex = 0
    /\ rowGrammar = NoGrammar
    /\ processedWords = 0
    /\ batchLog = <<>>
    /\ vault = [filePath \in BatchPaths |-> NoFile]
    /\ history = <<>>
    /\ serverURLs = <<Server1, Server2>>
    /\ startCalls /\ startQueue /\ startPage
    /\ idleMerge /\ idleReconcile /\ idleSection /\ idleCall /\ idleRetry

\* The frontmatter of the note as the metadata cache holds it, in the object
\* the command dumps with yaml.dump and updateExistingNote loads again.
CachedFrontmatter(text) ==
    LET Field(key) ==
            Entry(key, Str(YamlScalar(DumpScalar(Str(YamlNode(text, <<key>>).scalar)))))
    IN  <<Field("slovo"), Field("translation"), Field("phrase"),
          Field("phrase_translation"), Field("theme"), Field("partOfSpeech")>>

\* analyzeCurrentPageCzechGrammar up to its first await: without a slovo in
\* the frontmatter it returns; with the remote analysis on, the word is
\* analysed.
StartPage ==
    /\ pagePc = "idle"
    /\ vault[NotePath] # NoFile
    /\ pageFrontmatter' = CachedFrontmatter(vault[NotePath])
    /\ Truthy(Get(pageFrontmatter', <<"slovo">>))
    /\ IF useRemoteGrammarAnalysis
       THEN /\ pagePc' = "analyze"
            /\ Analyze("page", 0, lastAnalysis)
       ELSE /\ pagePc' = "write"
            /\ UNCHANGED <<urlVars, inFlight>>
    /\ UNCHANGED <<pageGrammar, lastAnalysis, queueVars, batchVars, noteVars, mergeVars,
                   reconcileVars, sectionVars, callVars, retryVars>>

\* The analysis of the page's word returns, an analysis or null.
PageAnalysisEnds ==
    /\ pagePc = "analyze"
    /\ AnalysisEnds("page", 0)
    /\ pageGrammar' \in {NoGrammar, VerbGrammar}
    /\ pagePc' = "write"
    /\ UNCHANGED <<pageFrontmatter, urlVars, queueVars, batchVars, noteVars, mergeVars,
                   reconcileVars, sectionVars, callVars, retryVars>>

\* The note is read, reconciled with updateExistingNote and written; a vault
\* call may throw, which the catch block reports.
PageWrites ==
    /\ pagePc = "write"
    /\ \E thrown \in BOOLEAN :
           vault' = IF thrown THEN vault
                    ELSE [vault EXCEPT ![NotePath] =
                             updateExistingNote(vault[NotePath], pageFrontmatter, pageGrammar,
                                                useRemoteGrammarAnalysis,
                                                flashcardsNoteSection)]
    /\ pagePc' = "done"
    /\ UNCHANGED <<history, pageFrontmatter, pageGrammar, urlVars, queueVars, flightVars,
                   batchVars, mergeVars, reconcileVars, sectionVars, callVars, retryVars>>

\* queueWordAnalysis: the request is pushed, and processQueue is called when
\* no loop is marked as running.
QueueWordAnalysis(limit) ==
    /\ queued < limit
    /\ queued' = queued + 1
    /\ IF ~isProcessingQueue
       THEN processQueue(Append(requestQueue, queued + 1), "queued", lastAnalysis)
       ELSE /\ requestQueue' = Append(requestQueue, queued + 1)
            /\ UNCHANGED <<isProcessingQueue, loops, taken, urlVars, inFlight>>
    /\ UNCHANGED <<settled, lastAnalysis, pageVars, batchVars, noteVars, mergeVars,
                   reconcileVars, sectionVars, callVars, retryVars>>

\* The first attempt of a request failed and the timer of retryRequest fired:
\* fn is called again, with the URL its closure holds.
RequestRetried ==
    /\ \E call \in inFlight :
           /\ call.attempt = 1
           /\ inFlight' = (inFlight \ {call}) \cup {[call EXCEPT !.attempt = 2]}
    /\ UNCHANGED <<serverURLs, currentServerURLIndex, calls, urlEdits, lastAnalysis,
                   queueVars, pageVars, batchVars, noteVars, mergeVars, reconcileVars,
                   sectionVars, callVars, retryVars>>

\* createWordNote: the note of the word in the default folder is created or
\* overwritten with the content; a vault call may throw, which is caught.
createWordNote(files, word, content, thrown) ==
    IF thrown THEN files
    ELSE [files EXCEPT ![newWordsFolder \o <<"/">> \o word \o <<".md">>] = content]

\* The analysis a loop of processQueue awaits returns, an analysis or null.
LoopAnalysisEnds(i) ==
    /\ i <= Len(loops)
    /\ loops[i].pc = "analyze"
    /\ AnalysisEnds("queue", loops[i].request)
    /\ \E czechWordGrammar \in {NoGrammar, VerbGrammar} :
           loops' = [loops EXCEPT ![i].pc = "resolve", ![i].grammar = czechWordGrammar]
    /\ UNCHANGED <<requestQueue, isProcessingQueue, queued, taken, settled, urlVars, pageVars,
                   batchVars, noteVars, mergeVars, reconcileVars, sectionVars, callVars,
                   retryVars>>

\* request.resolve: with an analysis the note is written with createWordNote;
\* then the promise of queueWordAnalysis is resolved and the loop sleeps.
LoopResolves(i) ==
    /\ i <= Len(loops)
    /\ loops[i].pc = "resolve"
    /\ \E thrown \in BOOLEAN :
           vault' = IF loops[i].grammar.isNull THEN vault
                    ELSE createWordNote(vault, JitRow.slovo.v,
                                        createNoteContent(JitRow, loops[i].grammar, BasicVerbs,
                                                          flashcardsNoteSection),
                                        thrown)
    /\ settled' = settled \cup {loops[i].request}
    /\ loops' = [loops EXCEPT ![i].pc = "sleep"]
    /\ UNCHANGED <<history, requestQueue, isProcessingQueue, queued, taken, urlVars, flightVars,
                   pageVars, batchVars, mergeVars, reconcileVars, sectionVars, callVars,
                   retryVars>>

\* The sleep of ten seconds is over: the while test is made again.  A table
\* command that awaits this loop goes on when the loop ends.
LoopSleepEnds(i) ==
    /\ i <= Len(loops)
    /\ loops[i].pc = "sleep"
    /\ lastAnalysis' = "slept"
    /\ WhileTest(requestQueue, i, loops[i].owner, "slept")
    /\ batchPc' = IF loops[i].owner = "batch" /\ requestQueue = <<>> THEN "done" ELSE batchPc
    /\ UNCHANGED <<useRemoteGrammarAnalysis, activeFile, table, rowIndex, rowGrammar,
                   processedWords, batchLog, queued, settled, pageVars, noteVars, mergeVars,
                   reconcileVars, sectionVars, callVars, retryVars>>

\* The user edits the list of server URLs in the settings tab.
EditServerURLs ==
    /\ urlEdits < MaxEdits
    /\ serverURLs' \in URLLists \ {serverURLs}
    /\ urlEdits' = urlEdits + 1
    /\ UNCHANGED <<currentServerURLIndex, calls, queueVars, flightVars, pageVars,
                   batchVars, noteVars, mergeVars, reconcileVars, sectionVars, callVars,
                   retryVars>>

\* At most this many loops exist in any state of the model.
MaxLoops == 2

NetNext ==
    \/ CollectRows
    \/ BeginRow
    \/ AnalysisFails
    \/ AnalysisReturns
    \/ WriteNote
    \/ FinishBatch
    \/ StartPage
    \/ PageAnalysisEnds
    \/ PageWrites
    \/ QueueWordAnalysis(MaxNetQueued)
    \/ \E i \in 1..MaxLoops : LoopAnalysisEnds(i)
    \/ \E i \in 1..MaxLoops : LoopResolves(i)
    \/ \E i \in 1..MaxLoops : LoopSleepEnds(i)

NetSpec == NetInit /\ [][NetNext]_vars

\* C21: at most one call of analyzeCzechWordGrammar is in flight at any
\* moment, whichever of the table command, the current-page command and the
\* loop of processQueue made it.
C21_OneRequestInFlight == Cardinality(inFlight) <= 1

\* C22: a request for a word of a table is made by the loop of processQueue,
\* and the sleep took place since the analysis that ended before it.
C22_TableWordsThroughQueue ==
    \A call \in inFlight : call.by # "page" => call.by = "queue" /\ call.slept

(***************************************************************************)
(* The server list: the calls of analyzeCzechWordGrammar by the            *)
(* current-page command and by the loop of processQueue, their retries,    *)
(* and edits of the list, which is empty by default.                       *)
(***************************************************************************)
UrlInit ==
    /\ useRemoteGrammarAnalysis = TRUE
    /\ batchPc = "idle"
    /\ activeFile = <<>>
    /\ table = NoTable
    /\ rowIndex = 0
    /\ rowGrammar = NoGrammar
    /\ processedWords = 0
    /\ batchLog = <<>>
    /\ vault \in {files \in BatchVaults : \A filePath \in BatchPaths : files[filePath] # NoFile}
    /\ history = <<>>
    /\ serverURLs \in URLLists
    /\ startCalls /\ startQueue /\ startPage
    /\ idleMerge /\ idleReconcile /\ idleSection /\ idleCall /\ idleRetry

UrlNext ==
    \/ StartPage
    \/ PageAnalysisEnds
    \/ PageWrites
    \/ QueueWordAnalysis(MaxQueued)
    \/ RequestRetried
    \/ \E i \in 1..MaxLoops : LoopAnalysisEnds(i)
    \/ \E i \in 1..MaxLoops : LoopResolves(i)
    \/ \E i \in 1..MaxLoops : LoopSleepEnds(i)
    \/ EditServerURLs

UrlSpec == UrlInit /\ [][UrlNext]_vars

\* C24: while the list of n >= 1 server URLs is the one the plugin was
\* loaded with, the k-th call of analyzeCzechWordGrammar sends its request,
\* and its retry, to serverURLs[(k - 1) mod n].
C24_RoundRobin ==
    (urlEdits = 0 /\ serverURLs # <<>>)
        => \A call \in inFlight :
               call.url = serverURLs[((call.k - 1) % Len(serverURLs)) + 1]

\* The third call, with two servers configured, retries at the first server.
C24_Witness ==
    /\ urlEdits = 0
    /\ Len(serverURLs) = 2
    /\ \E call \in inFlight : call.k = 3 /\ call.attempt = 2 /\ call.url = Server1
    /\ \E call \in inFlight : call.k = 2 /\ call.url = Server2

\* C27: whenever the list is not empty, currentServerURLIndex is an index of
\* it, and a call made with a list that is not empty gets one of its URLs.
C27_IndexInsideList ==
    /\ serverURLs # <<>> => currentServerURLIndex \in 0..(Len(serverURLs) - 1)
    /\ \A call \in inFlight :
           call.urls # <<>> => \E i \in 1..Len(call.urls) : call.url = call.urls[i]

(***************************************************************************)
(* The queue: requests added with queueWordAnalysis at any moment, the     *)
(* loop of processQueue, and the table command, which calls processQueue   *)
(* when its rows are done.                                                 *)
(***************************************************************************)
QueueInit ==
    /\ useRemoteGrammarAnalysis = TRUE
    /\ batchPc = "idle"
    /\ activeFile = Page(<<JitLine>>)
    /\ table = NoTable
    /\ rowIndex = 0
    /\ rowGrammar = NoGrammar
    /\ processedWords = 0
    /\ batchLog = <<>>
    /\ vault = [filePath \in BatchPaths |-> NoFile]
    /\ history = <<>>
    /\ serverURLs = <<Server1, Server2>>
    /\ startCalls /\ startQueue /\ startPage
    /\ idleMerge /\ idleReconcile /\ idleSection /\ idleCall /\ idleRetry

\* The step of LoopResolves, told by what it does to the loop.
LoopResolved ==
    \E i \in 1..MaxLoops :
        /\ i <= Len(loops)
        /\ loops[i].pc = "resolve"
        /\ loops' = [loops EXCEPT ![i].pc = "sleep"]

QueueNext ==
    \/ CollectRows
    \/ BeginRow
    \/ AnalysisFails
    \/ AnalysisReturns
    \/ WriteNote
    \/ FinishBatch
    \/ QueueWordAnalysis(MaxQueued)
    \/ \E i \in 1..MaxLoops : LoopAnalysisEnds(i)
    \/ \E i \in 1..MaxLoops : LoopResolves(i)
    \/ \E i \in 1..MaxLoops : LoopSleepEnds(i)

QueueSpec == QueueInit /\ [][QueueNext]_vars

\* Every analysis call, note write and sleep of a loop of processQueue ends.
QueueFairSpec ==
    /\ QueueSpec
    /\ WF_vars(\E i \in 1..MaxLoops : LoopAnalysisEnds(i))
    /\ WF_loops(LoopResolved)
    /\ WF_vars(\E i \in 1..MaxLoops : LoopSleepEnds(i))

\* The requests are numbered in the order queueWordAnalysis added them.
QueueSafe ==
    /\ ~isProcessingQueue => requestQueue = <<>>
    /\ Len(loops) <= 1
    /\ \A i \in 1..Len(taken) : taken[i] = i
    /\ \A i \in 1..Len(requestQueue) : requestQueue[i] = Len(taken) + i
    /\ Len(taken) + Len(requestQueue) = queued
    /\ \A request \in settled : request \in 1..Len(taken)

\* C28: every queued request is taken from the queue once, in the order of
\* queueing, and its promise is settled in the end; the queue is empty
\* whenever isProcessingQueue is false, and at most one loop drains it.
C28_QueueDrained ==
    /\ []QueueSafe
    /\ \A request \in 1..MaxQueued : (queued >= request) ~> (request \in settled)

\* Both requests were taken in order and settled, the second one queued while
\* the loop was busy with the first, and the loop has ended.
C28_Witness ==
    /\ taken = <<1, 2>>
    /\ settled = {1, 2}
    /\ calls = 2
    /\ loops = <<>>
    /\ ~isProcessingQueue

====
